---- MODULE Spec2Model ----
(***************************************************************************)
(* A model of the monistode binutils library: the bit buffer, the          *)
(* primitive codec, the object-file and executable containers.             *)
(*                                                                         *)
(* Byte strings are sequences of numbers in 0..255, bit buffers sequences  *)
(* of BOOLEAN.  Rust indices are 0-based: element i of a slice is          *)
(* element i + 1 of the sequence that models it.                           *)
(***************************************************************************)
EXTENDS Integers, Sequences, FiniteSets, TLC

VARIABLES
    pc,      \* the step the run is at
    obj,     \* the ObjectFile under construction
    exe,     \* the Executable under construction
    data,    \* the byte string handed to a decoder
    origin,  \* how `data` was made: serialized, truncated or crafted from headers
    res,     \* what the decoder returned
    byte,    \* an architecture byte
    bitvec,  \* a bit buffer
    call,    \* the last read or write on the bit buffer
    placement,  \* the Placement the linker works on
    lookup,     \* the last find_symbol query on the placement as it is, and its answer
    linked,     \* what the link returned
    raw,        \* the RawDefinition under construction
    definition, \* what Definition::try_from returned
    symtab,     \* a SymbolTable
    reltab,     \* a RelocationTable
    calls,      \* the calls made so far on the tables or on the object file
    got         \* the last get_symbols query on the table as it is, and its answer

objVars == <<obj>>
exeVars == <<exe>>
codecVars == <<data, origin, res>>
archVars == <<byte>>
bitVars == <<bitvec, call>>
linkVars == <<placement, lookup, linked>>
defVars == <<raw, definition>>
tableVars == <<symtab, reltab, calls, got>>
vars == <<pc, obj, exe, data, origin, res, byte, bitvec, call, placement, lookup, linked,
          raw, definition, symtab, reltab, calls, got>>

(***************************************************************************)
(* Bounds of the model.                                                    *)
(***************************************************************************)
MaxSections == 2
MaxSegments == 2
MaxEntries == 2
MaxBits == 9
MaxHeaders == 3
PayloadLen == 40
MaxBufLen == 19
MaxPlaced == 2
MaxCommands == 2
MaxCalls == 3

(***************************************************************************)
(* Program constants.                                                      *)
(***************************************************************************)
ByteRange == 256
ObjectHeaderSize == 9
SectionHeaderSize == 16
SymbolEntrySize == 12
RelocationEntrySize == 16
TextTag == 0
SymbolTableTag == 255
RelocationTableTag == 254
ExecutableHeaderSize == 17
MinSegmentHeaderSize == 16
SegmentHeaderSize == 25
FieldBits == 16
FieldRange == 65536

(***************************************************************************)
(* Results of the decoders: success with the bytes consumed, an error of   *)
(* SerializationError, or a panic (an index or a slice out of bounds).     *)
(***************************************************************************)
Ok(size, value) == [tag |-> "Ok", size |-> size, value |-> value, err |-> "none", arg |-> 0]
Err(e) == [tag |-> "Err", size |-> 0, value |-> <<>>, err |-> e, arg |-> 0]
ErrArg(e, a) == [tag |-> "Err", size |-> 0, value |-> <<>>, err |-> e, arg |-> a]
Panic == [tag |-> "Panic", size |-> 0, value |-> <<>>, err |-> "none", arg |-> 0]
NoResult == [tag |-> "None", size |-> 0, value |-> <<>>, err |-> "none", arg |-> 0]

IsOk(r) == r.tag = "Ok"

(***************************************************************************)
(* Primitive codec: little-endian integers of a fixed width.               *)
(***************************************************************************)
RECURSIVE to_le_bytes(_, _)
to_le_bytes(n, width) ==
    IF width = 0 THEN <<>>
    ELSE <<n % ByteRange>> \o to_le_bytes(n \div ByteRange, width - 1)

RECURSIVE from_le_bytes(_)
from_le_bytes(bytes) ==
    IF bytes = <<>> THEN 0
    ELSE Head(bytes) + ByteRange * from_le_bytes(Tail(bytes))

\* data[from..] of Rust, for from <= data.len()
SliceFrom(d, from) == SubSeq(d, from + 1, Len(d))
\* data[from..to] of Rust, for from <= to <= data.len()
Slice(d, from, to) == SubSeq(d, from + 1, to)
Zeros(n) == [i \in 1..n |-> 0]

RECURSIVE Concat(_)
Concat(seqs) == IF seqs = <<>> THEN <<>> ELSE Head(seqs) \o Concat(Tail(seqs))

RECURSIVE SumSeq(_)
SumSeq(s) == IF s = <<>> THEN 0 ELSE Head(s) + SumSeq(Tail(s))

(***************************************************************************)
(* Architecture.                                                           *)
(***************************************************************************)
Architectures == {"Stack", "Risc"}

Architecture_as_u8(a) == IF a = "Stack" THEN 0 ELSE 2

Architecture_try_from(value) ==
    IF value = 0 THEN Ok(1, "Stack")
    ELSE IF value = 2 THEN Ok(1, "Risc")
    ELSE ErrArg("InvalidArchitecture", value)

(***************************************************************************)
(* Symbols and the symbol table (symbols.rs).                              *)
(***************************************************************************)
Symbol(name, address) == [name |-> name, address |-> address]

SymbolTable_new == [entries |-> <<>>, names |-> <<>>]

\* A String is the sequence of its chars, each char its scalar value.
\* str::as_bytes gives the UTF-8 encoding: one byte below 0x80, two below
\* 0x800, three below 0x10000.
utf8(c) ==
    IF c < 128 THEN <<c>>
    ELSE IF c < 2048 THEN <<192 + (c \div 64), 128 + (c % 64)>>
    ELSE <<224 + (c \div 4096), 128 + ((c \div 64) % 64), 128 + (c % 64)>>

RECURSIVE as_bytes(_)
as_bytes(name) == IF name = <<>> THEN <<>> ELSE utf8(Head(name)) \o as_bytes(Tail(name))

\* An add_symbol that leaves out the terminator.
add_symbol_no_terminator(t, section_id, symbol) ==
    [entries |-> Append(t.entries, [section_id |-> section_id,
                                    offset |-> symbol.address,
                                    name_offset |-> Len(t.names)]),
     names |-> t.names \o as_bytes(symbol.name)]

add_symbol(t, section_id, symbol) ==
    [entries |-> Append(t.entries, [section_id |-> section_id,
                                    offset |-> symbol.address,
                                    name_offset |-> Len(t.names)]),
     names |-> t.names \o as_bytes(symbol.name) \o <<0>>]

SymbolEntry_bytes(e) ==
    to_le_bytes(e.section_id, 4) \o to_le_bytes(e.offset, 4) \o to_le_bytes(e.name_offset, 4)

SymbolTableHeader(entry_count, names_length) ==
    [type |-> "SymbolTable", bit_length |-> 0,
     entry_count |-> entry_count, names_length |-> names_length]

serialize_as_section(t) ==
    [header |-> SymbolTableHeader(Len(t.entries), Len(t.names)),
     data |-> Concat([i \in 1..Len(t.entries) |-> SymbolEntry_bytes(t.entries[i])]) \o t.names]

\* The entry loop of deserialize_section: `remaining` entries are still to be
\* read at byte `offset` of d.
RECURSIVE ReadSymbolEntries(_, _, _, _, _)
ReadSymbolEntries(d, offset, remaining, names_length, acc) ==
    IF remaining = 0 THEN Ok(offset, acc)
    ELSE IF offset + SymbolEntrySize > Len(d) THEN Err("DataTooShort")
    ELSE LET section_id == from_le_bytes(Slice(d, offset, offset + 4))
             addr == from_le_bytes(Slice(d, offset + 4, offset + 8))
             name_offset == from_le_bytes(Slice(d, offset + 8, offset + 12))
         IN IF name_offset >= names_length THEN Err("InvalidData")
            ELSE ReadSymbolEntries(d, offset + SymbolEntrySize, remaining - 1, names_length,
                     Append(acc, [section_id |-> section_id, offset |-> addr,
                                  name_offset |-> name_offset]))

HasNul(names) == \E i \in 1..Len(names) : names[i] = 0

deserialize_section(header, d) ==
    LET required_size == header.entry_count * SymbolEntrySize + header.names_length
    IN IF Len(d) < required_size THEN Err("DataTooShort")
       ELSE LET read == ReadSymbolEntries(d, 0, header.entry_count, header.names_length, <<>>)
            IN IF ~IsOk(read) THEN read
               ELSE IF read.size + header.names_length > Len(d) THEN Err("DataTooShort")
               ELSE LET names == Slice(d, read.size, read.size + header.names_length)
                    IN IF Len(names) > 0 /\ ~HasNul(names) THEN Err("InvalidData")
                       ELSE Ok(read.size + header.names_length,
                               [entries |-> read.value, names |-> names])

\* The bytes of `names` from 0-based index i up to the next NUL or the end,
\* each pushed `as char`: the char whose scalar value is the byte.
RECURSIVE ReadName(_, _)
ReadName(names, i) ==
    IF i < Len(names) /\ names[i + 1] # 0
    THEN <<names[i + 1]>> \o ReadName(names, i + 1)
    ELSE <<>>

\* A get_symbols that hands every entry to every section.
get_symbols_any_section(t, section_id) ==
    [i \in 1..Len(t.entries) |->
        Symbol(ReadName(t.names, t.entries[i].name_offset), t.entries[i].offset)]

get_symbols(t, section_id) ==
    LET Owned(e) == e.section_id = section_id
        kept == SelectSeq(t.entries, Owned)
    IN [i \in 1..Len(kept) |-> Symbol(ReadName(t.names, kept[i].name_offset), kept[i].offset)]

(***************************************************************************)
(* Relocations and the relocation table (object_file/relocations.rs).      *)
(***************************************************************************)
Relocation(symbol, address, relative) ==
    [symbol |-> symbol, address |-> address, relative |-> relative]

RelocationTable_new == [entries |-> <<>>, names |-> <<>>]

add_relocation(t, section_id, relocation) ==
    [entries |-> Append(t.entries, [section_id |-> section_id,
                                    symbol_offset |-> Len(t.names),
                                    address |-> relocation.address,
                                    relative |-> relocation.relative]),
     names |-> t.names \o as_bytes(relocation.symbol) \o <<0>>]

RelocationEntry_bytes(e) ==
    to_le_bytes(e.section_id, 4) \o to_le_bytes(e.symbol_offset, 4)
        \o to_le_bytes(e.address, 4) \o <<IF e.relative THEN 1 ELSE 0>> \o Zeros(3)

RelocationTableHeader(entry_count, names_length) ==
    [type |-> "RelocationTable", bit_length |-> 0,
     entry_count |-> entry_count, names_length |-> names_length]

RelocationTable_serialize(t) ==
    [header |-> RelocationTableHeader(Len(t.entries), Len(t.names)),
     data |-> Concat([i \in 1..Len(t.entries) |-> RelocationEntry_bytes(t.entries[i])]) \o t.names]

RECURSIVE ReadRelocationEntries(_, _, _, _, _)
ReadRelocationEntries(d, offset, remaining, names_length, acc) ==
    IF remaining = 0 THEN Ok(offset, acc)
    ELSE IF offset + RelocationEntrySize > Len(d) THEN Err("DataTooShort")
    ELSE LET section_id == from_le_bytes(Slice(d, offset, offset + 4))
             symbol_offset == from_le_bytes(Slice(d, offset + 4, offset + 8))
             addr == from_le_bytes(Slice(d, offset + 8, offset + 12))
             relative == d[offset + 12 + 1] # 0
         IN IF symbol_offset >= names_length THEN Err("InvalidData")
            ELSE ReadRelocationEntries(d, offset + RelocationEntrySize, remaining - 1,
                     names_length,
                     Append(acc, [section_id |-> section_id, symbol_offset |-> symbol_offset,
                                  address |-> addr, relative |-> relative]))

RelocationTable_deserialize(header, d) ==
    LET required_size == header.entry_count * RelocationEntrySize + header.names_length
    IN IF Len(d) < required_size THEN Err("DataTooShort")
       ELSE LET read == ReadRelocationEntries(d, 0, header.entry_count,
                                              header.names_length, <<>>)
            IN IF ~IsOk(read) THEN read
               ELSE IF read.size + header.names_length > Len(d) THEN Err("DataTooShort")
               ELSE LET names == Slice(d, read.size, read.size + header.names_length)
                    IN IF ~HasNul(names) THEN Err("InvalidData")
                       ELSE Ok(read.size + header.names_length,
                               [entries |-> read.value, names |-> names])

get_relocations(t, section_id) ==
    LET Owned(e) == e.section_id = section_id
        kept == SelectSeq(t.entries, Owned)
    IN [i \in 1..Len(kept) |->
           Relocation(ReadName(t.names, kept[i].symbol_offset), kept[i].address,
                      kept[i].relative)]


(***************************************************************************)
(* Section headers (object_file/sections/header.rs).                       *)
(***************************************************************************)
TextSectionHeader(bit_length) ==
    [type |-> "Text", bit_length |-> bit_length, entry_count |-> 0, names_length |-> 0]

SectionHeader_serialize(h) ==
    IF h.type = "Text"
    THEN <<TextTag>> \o Zeros(7) \o to_le_bytes(h.bit_length, 8)
    ELSE <<IF h.type = "SymbolTable" THEN SymbolTableTag ELSE RelocationTableTag>>
             \o Zeros(3) \o to_le_bytes(h.entry_count, 4)
             \o to_le_bytes(h.names_length, 4) \o Zeros(4)

SectionHeader_deserialize(d) ==
    IF Len(d) < SectionHeaderSize THEN Err("DataTooShort")
    ELSE IF d[1] = TextTag
         THEN Ok(SectionHeaderSize, TextSectionHeader(from_le_bytes(Slice(d, 8, 16))))
    ELSE IF d[1] = SymbolTableTag
         THEN Ok(SectionHeaderSize, SymbolTableHeader(from_le_bytes(Slice(d, 4, 8)),
                                                      from_le_bytes(Slice(d, 8, 12))))
    ELSE IF d[1] = RelocationTableTag
         THEN Ok(SectionHeaderSize, RelocationTableHeader(from_le_bytes(Slice(d, 4, 8)),
                                                          from_le_bytes(Slice(d, 8, 12))))
    ELSE ErrArg("InvalidSectionType", d[1])

section_size(h) ==
    IF h.type = "Text" THEN (h.bit_length + 7) \div 8
    ELSE IF h.type = "SymbolTable" THEN h.entry_count * SymbolEntrySize + h.names_length
    ELSE h.entry_count * RelocationEntrySize + h.names_length

(***************************************************************************)
(* Text sections (object_file/sections/text.rs, common.rs): bit i of the   *)
(* buffer is bit (i mod 8) of byte (i div 8).                              *)
(***************************************************************************)
Pow2(j) == IF j = 0 THEN 1 ELSE IF j = 1 THEN 2 ELSE IF j = 2 THEN 4
           ELSE IF j = 3 THEN 8 ELSE IF j = 4 THEN 16 ELSE IF j = 5 THEN 32
           ELSE IF j = 6 THEN 64 ELSE 128

TextSection_serialize(bits) ==
    [i \in 1..((Len(bits) + 7) \div 8) |->
        SumSeq([j \in 1..8 |->
            IF (i - 1) * 8 + (j - 1) < Len(bits) /\ bits[(i - 1) * 8 + (j - 1) + 1]
            THEN Pow2(j - 1) ELSE 0])]

TextSection_deserialize(header, d, symbols, relocations) ==
    LET required_bytes == (header.bit_length + 7) \div 8
    IN IF Len(d) < required_bytes THEN Err("DataTooShort")
       ELSE Ok(required_bytes,
               [data |-> [i \in 1..header.bit_length |->
                             (d[((i - 1) \div 8) + 1] \div Pow2((i - 1) % 8)) % 2 = 1],
                symbols |-> symbols,
                relocations |-> relocations])

Section_serialize(section) ==
    [header |-> TextSectionHeader(Len(section.data)),
     data |-> TextSection_serialize(section.data)]

Section_deserialize(header, d, symbols, relocations) ==
    IF header.type = "Text" THEN TextSection_deserialize(header, d, symbols, relocations)
    ELSE ErrArg("InvalidSectionType", 0)

(***************************************************************************)
(* The object-file header (object_file/header.rs).                         *)
(***************************************************************************)
ObjectHeader_serialize(h) ==
    <<Architecture_as_u8(h.architecture)>> \o to_le_bytes(h.section_count, 8)

ObjectHeader_deserialize(d) ==
    IF Len(d) < ObjectHeaderSize THEN Err("DataTooShort")
    ELSE LET architecture == Architecture_try_from(d[1])
         IN IF ~IsOk(architecture) THEN architecture
            ELSE Ok(ObjectHeaderSize,
                    [architecture |-> architecture.value,
                     section_count |-> from_le_bytes(Slice(d, 1, 9))])


(***************************************************************************)
(* The object-file container (object_file/mod.rs).                         *)
(***************************************************************************)
ObjectFile_new(architecture) == [architecture |-> architecture, sections |-> <<>>]

with_sections(architecture, sections) == [architecture |-> architecture, sections |-> sections]

add_section(o, section) == [o EXCEPT !.sections = Append(@, section)]

\* A merge that does not look at the architectures.
merge_unchecked(o, other) ==
    [panicked |-> FALSE, object |-> [o EXCEPT !.sections = @ \o other.sections]]

\* merge: a panic that leaves the receiver as it was, or the receiver
\* extended by the sections of the other file.
merge(o, other) ==
    IF o.architecture # other.architecture THEN [panicked |-> TRUE, object |-> o]
    ELSE [panicked |-> FALSE, object |-> [o EXCEPT !.sections = @ \o other.sections]]

RECURSIVE add_symbols(_, _, _)
add_symbols(t, section_id, symbols) ==
    IF symbols = <<>> THEN t
    ELSE add_symbols(add_symbol(t, section_id, Head(symbols)), section_id, Tail(symbols))

RECURSIVE add_relocations(_, _, _)
add_relocations(t, section_id, relocations) ==
    IF relocations = <<>> THEN t
    ELSE add_relocations(add_relocation(t, section_id, Head(relocations)), section_id,
                         Tail(relocations))

\* The loop of serialize that gathers the two side tables, section by section.
RECURSIVE GatherSymbols(_, _, _)
GatherSymbols(sections, section_id, t) ==
    IF sections = <<>> THEN t
    ELSE GatherSymbols(Tail(sections), section_id + 1,
                       add_symbols(t, section_id, Head(sections).symbols))

RECURSIVE GatherRelocations(_, _, _)
GatherRelocations(sections, section_id, t) ==
    IF sections = <<>> THEN t
    ELSE GatherRelocations(Tail(sections), section_id + 1,
                           add_relocations(t, section_id, Head(sections).relocations))

ObjectFile_serialize(o) ==
    LET symbol_table == GatherSymbols(o.sections, 0, SymbolTable_new)
        relocation_table == GatherRelocations(o.sections, 0, RelocationTable_new)
        header == [architecture |-> o.architecture, section_count |-> Len(o.sections) + 2]
        regular == [i \in 1..Len(o.sections) |-> Section_serialize(o.sections[i])]
        symbols == serialize_as_section(symbol_table)
        relocations == RelocationTable_serialize(relocation_table)
        headers == [i \in 1..Len(regular) |-> regular[i].header]
                       \o <<symbols.header, relocations.header>>
        section_data == Concat([i \in 1..Len(regular) |-> regular[i].data])
                            \o symbols.data \o relocations.data
    IN ObjectHeader_serialize(header)
           \o Concat([i \in 1..Len(headers) |-> SectionHeader_serialize(headers[i])])
           \o section_data

\* The loop of deserialize that reads the section headers.
RECURSIVE ReadSectionHeaders(_, _, _, _)
ReadSectionHeaders(d, offset, remaining, acc) ==
    IF remaining = 0 THEN Ok(offset, acc)
    ELSE IF Len(d) < offset + SectionHeaderSize THEN Err("DataTooShort")
    ELSE LET h == SectionHeader_deserialize(SliceFrom(d, offset))
         IN IF ~IsOk(h) THEN h
            ELSE ReadSectionHeaders(d, offset + h.size, remaining - 1, Append(acc, h.value))

IsTable(h) == h.type \in {"SymbolTable", "RelocationTable"}

headers_valid_no_scan(headers) ==
    LET section_count == Len(headers)
    IN /\ section_count >= 2
       /\ headers[section_count - 1].type = "SymbolTable"
       /\ headers[section_count].type = "RelocationTable"

\* The structural checks of deserialize on the header list.
headers_valid(headers) ==
    LET section_count == Len(headers)
    IN /\ section_count >= 2
       /\ headers[section_count - 1].type = "SymbolTable"
       /\ headers[section_count].type = "RelocationTable"
       /\ ~\E i \in 1..(section_count - 2) : IsTable(headers[i])

\* The loop of deserialize over the regular sections.
RECURSIVE ReadSections(_, _, _, _, _, _, _)
ReadSections(d, headers, idx, current_offset, symbol_table, relocation_table, acc) ==
    IF idx >= Len(headers) - 2 THEN Ok(current_offset, acc)
    ELSE IF headers[idx + 1].type # "Text" THEN Err("InvalidData")
    ELSE IF current_offset > Len(d) THEN Panic
    ELSE LET section == Section_deserialize(headers[idx + 1], SliceFrom(d, current_offset),
                                            get_symbols(symbol_table, idx),
                                            get_relocations(relocation_table, idx))
         IN IF ~IsOk(section) THEN section
            ELSE ReadSections(d, headers, idx + 1, current_offset + section.size,
                              symbol_table, relocation_table, Append(acc, section.value))

bytes_consumed_without_relocations(relocation_offset, relocation_header) ==
    relocation_offset

\* The bytes-consumed count deserialize returns.
bytes_consumed(relocation_offset, relocation_header) ==
    relocation_offset + section_size(relocation_header)

ObjectFile_deserialize(d) ==
    IF Len(d) < ObjectHeaderSize THEN Err("DataTooShort")
    ELSE
    LET header == ObjectHeader_deserialize(d)
    IN IF ~IsOk(header) THEN header
    ELSE
    LET read == ReadSectionHeaders(d, header.size, header.value.section_count, <<>>)
    IN IF ~IsOk(read) THEN read
    ELSE
    LET headers == read.value
        offset == read.size
        section_count == Len(headers)
    IN IF ~headers_valid(headers) THEN Err("InvalidData")
    ELSE
    LET symbol_offset ==
            offset + SumSeq([i \in 1..(section_count - 2) |-> section_size(headers[i])])
    IN IF symbol_offset > Len(d) THEN Panic
    ELSE
    LET symbol_table ==
            deserialize_section(headers[section_count - 1], SliceFrom(d, symbol_offset))
    IN IF ~IsOk(symbol_table) THEN symbol_table
    ELSE
    LET relocation_offset == symbol_offset + section_size(headers[section_count - 1])
    IN IF relocation_offset > Len(d) THEN Panic
    ELSE
    LET relocation_table ==
            RelocationTable_deserialize(headers[section_count],
                                        SliceFrom(d, relocation_offset))
    IN IF ~IsOk(relocation_table) THEN relocation_table
    ELSE
    LET sections == ReadSections(d, headers, 0, offset, symbol_table.value,
                                 relocation_table.value, <<>>)
    IN IF ~IsOk(sections) THEN sections
       ELSE Ok(bytes_consumed(relocation_offset, headers[section_count]),
               [architecture |-> header.value.architecture, sections |-> sections.value])


(***************************************************************************)
(* Segments (executable/segments/common.rs, flags.rs) and their headers.   *)
(* A segment header is the record Segment::serialize builds: three 64-bit  *)
(* fields and the flags; on the wire it is 25 bytes.                       *)
(***************************************************************************)
SegmentFlags(executable, writable, readable, special) ==
    [executable |-> executable, writable |-> writable, readable |-> readable,
     special |-> special]

SegmentFlags_serialize(flags) ==
    (IF flags.executable THEN 1 ELSE 0) + (IF flags.writable THEN 2 ELSE 0)
        + (IF flags.readable THEN 4 ELSE 0) + (IF flags.special THEN 8 ELSE 0)

SegmentFlags_deserialize(b) ==
    SegmentFlags(b % 2 = 1, (b \div 2) % 2 = 1, (b \div 4) % 2 = 1, (b \div 8) % 2 = 1)

Segment_new(address_space_start, address_space_size, disk_bit_count, flags, bits, symbols) ==
    [address_space_start |-> address_space_start,
     address_space_size |-> address_space_size,
     disk_bit_count |-> disk_bit_count,
     flags |-> flags,
     data |-> bits,
     symbols |-> symbols]

SegmentHeader(address_space_start, address_space_size, disk_bit_count, flags) ==
    [address_space_start |-> address_space_start,
     address_space_size |-> address_space_size,
     disk_bit_count |-> disk_bit_count,
     flags |-> flags]

SegmentHeader_serialize(h) ==
    to_le_bytes(h.address_space_start, 8) \o to_le_bytes(h.address_space_size, 8)
        \o to_le_bytes(h.disk_bit_count, 8) \o <<SegmentFlags_serialize(h.flags)>>

SegmentHeader_deserialize(d) ==
    IF Len(d) < SegmentHeaderSize THEN Err("DataTooShort")
    ELSE Ok(SegmentHeaderSize,
            SegmentHeader(from_le_bytes(Slice(d, 0, 8)), from_le_bytes(Slice(d, 8, 16)),
                          from_le_bytes(Slice(d, 16, 24)), SegmentFlags_deserialize(d[25])))

\* The header of the symbol-table segment is the one marked special.
is_symbol_table(h) == h.flags.special

\* The on-disk byte length of a segment's payload; for the symbol-table
\* segment disk_bit_count holds the byte length itself.
segment_size(h) ==
    IF is_symbol_table(h) THEN h.disk_bit_count ELSE (h.disk_bit_count + 7) \div 8

Segment_serialize(segment) ==
    [header |-> SegmentHeader(segment.address_space_start, segment.address_space_size,
                              segment.disk_bit_count, segment.flags),
     data |-> [i \in 1..((Len(segment.data) + 7) \div 8) |->
                 SumSeq([j \in 1..8 |->
                     IF (i - 1) * 8 + (j - 1) < Len(segment.data)
                            /\ segment.data[(i - 1) * 8 + (j - 1) + 1]
                     THEN Pow2(j - 1) ELSE 0])]]

Segment_deserialize(header, d, symbols) ==
    LET required_bytes == (header.disk_bit_count + 7) \div 8
    IN IF Len(d) < required_bytes THEN Err("DataTooShort")
       ELSE Ok(required_bytes,
               Segment_new(header.address_space_start, header.address_space_size,
                           header.disk_bit_count, header.flags,
                           [i \in 1..header.disk_bit_count |->
                               (d[((i - 1) \div 8) + 1] \div Pow2((i - 1) % 8)) % 2 = 1],
                           symbols))

(***************************************************************************)
(* The symbol table as a segment (symbols.rs).                             *)
(***************************************************************************)
serialize_as_segment(t) ==
    LET bytes == Concat([i \in 1..Len(t.entries) |-> SymbolEntry_bytes(t.entries[i])])
                     \o t.names
    IN [header |-> SegmentHeader(0, Len(t.entries), Len(bytes),
                                 SegmentFlags(FALSE, FALSE, FALSE, TRUE)),
        data |-> bytes]

\* deserialize_segment.  The names blob is data[offset..disk_bit_count]; the
\* subtraction that bounds name_offset is unsigned and fails when the header
\* announces more entries than disk_bit_count has room for.
deserialize_segment(header, d) ==
    LET required_size == header.disk_bit_count
        names_length == header.disk_bit_count - header.address_space_size * SymbolEntrySize
    IN IF Len(d) < required_size THEN Err("DataTooShort")
       ELSE IF header.address_space_size > 0 /\ names_length < 0
            THEN IF SymbolEntrySize > Len(d) THEN Err("DataTooShort") ELSE Panic
       ELSE LET read == ReadSymbolEntries(d, 0, header.address_space_size, names_length, <<>>)
            IN IF ~IsOk(read) THEN read
               ELSE IF read.size > header.disk_bit_count THEN Panic
               ELSE LET names == Slice(d, read.size, header.disk_bit_count)
                    IN IF ~HasNul(names) THEN Err("InvalidData")
                       ELSE Ok(header.disk_bit_count,
                               [entries |-> read.value, names |-> names])

(***************************************************************************)
(* The executable container (executable/mod.rs, executable/header.rs).     *)
(***************************************************************************)
ExecutableHeader_new(architecture, segment_count) ==
    [architecture |-> architecture, segment_count |-> segment_count, entry_point |-> 0]

ExecutableHeader_serialize(h) ==
    <<Architecture_as_u8(h.architecture)>> \o to_le_bytes(h.segment_count, 8)
        \o to_le_bytes(h.entry_point, 8)

ExecutableHeader_deserialize(d) ==
    IF Len(d) < ExecutableHeaderSize THEN Err("DataTooShort")
    ELSE LET architecture == Architecture_try_from(d[1])
         IN IF ~IsOk(architecture) THEN architecture
            ELSE Ok(ExecutableHeaderSize,
                    [architecture |-> architecture.value,
                     segment_count |-> from_le_bytes(Slice(d, 1, 9)),
                     entry_point |-> from_le_bytes(Slice(d, 9, 17))])

Executable_new(architecture, segments) ==
    [header |-> ExecutableHeader_new(architecture, 0), segments |-> segments]

RECURSIVE GatherSegmentSymbols(_, _, _)
GatherSegmentSymbols(segments, segment_id, t) ==
    IF segments = <<>> THEN t
    ELSE GatherSegmentSymbols(Tail(segments), segment_id + 1,
                              add_symbols(t, segment_id, Head(segments).symbols))

Executable_serialize(e) ==
    LET symbol_table == GatherSegmentSymbols(e.segments, 0, SymbolTable_new)
        header == [architecture |-> e.header.architecture,
                   segment_count |-> Len(e.segments) + 1,
                   entry_point |-> e.header.entry_point]
        regular == [i \in 1..Len(e.segments) |-> Segment_serialize(e.segments[i])]
        symbols == serialize_as_segment(symbol_table)
        headers == [i \in 1..Len(regular) |-> regular[i].header] \o <<symbols.header>>
        segment_data == Concat([i \in 1..Len(regular) |-> regular[i].data]) \o symbols.data
    IN ExecutableHeader_serialize(header)
           \o Concat([i \in 1..Len(headers) |-> SegmentHeader_serialize(headers[i])])
           \o segment_data

RECURSIVE ReadSegmentHeaders(_, _, _, _)
ReadSegmentHeaders(d, offset, remaining, acc) ==
    IF remaining = 0 THEN Ok(offset, acc)
    ELSE IF Len(d) < offset + MinSegmentHeaderSize THEN Err("DataTooShort")
    ELSE LET h == SegmentHeader_deserialize(SliceFrom(d, offset))
         IN IF ~IsOk(h) THEN h
            ELSE ReadSegmentHeaders(d, offset + h.size, remaining - 1, Append(acc, h.value))

\* The structural checks of deserialize on the segment header list.
segment_headers_valid(headers) ==
    LET segment_count == Len(headers)
    IN /\ segment_count >= 1
       /\ is_symbol_table(headers[segment_count])
       /\ ~\E i \in 1..(segment_count - 1) : is_symbol_table(headers[i])

RECURSIVE ReadSegments(_, _, _, _, _, _)
ReadSegments(d, headers, idx, current_offset, symbol_table, acc) ==
    IF idx >= Len(headers) - 1 THEN Ok(current_offset, acc)
    ELSE IF is_symbol_table(headers[idx + 1]) THEN Err("InvalidData")
    ELSE IF current_offset > Len(d) THEN Panic
    ELSE LET segment == Segment_deserialize(headers[idx + 1], SliceFrom(d, current_offset),
                                            get_symbols(symbol_table, idx))
         IN IF ~IsOk(segment) THEN segment
            ELSE ReadSegments(d, headers, idx + 1, current_offset + segment.size,
                              symbol_table, Append(acc, segment.value))

Executable_deserialize(d) ==
    IF Len(d) < ObjectHeaderSize THEN Err("DataTooShort")
    ELSE
    LET header == ExecutableHeader_deserialize(d)
    IN IF ~IsOk(header) THEN header
    ELSE
    LET read == ReadSegmentHeaders(d, header.size, header.value.segment_count, <<>>)
    IN IF ~IsOk(read) THEN read
    ELSE
    LET headers == read.value
        offset == read.size
        segment_count == Len(headers)
    IN IF ~segment_headers_valid(headers) THEN Err("InvalidData")
    ELSE
    LET symbol_offset ==
            offset + SumSeq([i \in 1..(segment_count - 1) |-> segment_size(headers[i])])
    IN IF symbol_offset > Len(d) THEN Panic
    ELSE
    LET symbol_table == deserialize_segment(headers[segment_count], SliceFrom(d, symbol_offset))
    IN IF ~IsOk(symbol_table) THEN symbol_table
    ELSE
    LET segments == ReadSegments(d, headers, 0, offset, symbol_table.value, <<>>)
    IN IF ~IsOk(segments) THEN segments
       ELSE Ok(symbol_offset + segment_size(headers[segment_count]),
               [header |-> header.value, segments |-> segments.value])

(***************************************************************************)
(* Inputs.                                                                 *)
(***************************************************************************)
NameInputs == {<<97>>, <<98, 99>>}
SymbolInputs == {Symbol(<<97>>, 1), Symbol(<<98, 99>>, 300)}
RelocationInputs == {Relocation(<<97>>, 0, FALSE), Relocation(<<98, 99>>, 258, TRUE)}
BitInputs == {[i \in 1..n |-> i % 2 = 1] : n \in {0, 1, MaxBits}}

SeqsUpTo(S, n) == UNION {[1..k -> S] : k \in 0..n}

SectionInputs ==
    {[data |-> b, symbols |-> s, relocations |-> r] :
        b \in BitInputs, s \in SeqsUpTo(SymbolInputs, MaxEntries),
        r \in SeqsUpTo(RelocationInputs, MaxEntries)}

SymbolCount(sections) == SumSeq([i \in 1..Len(sections) |-> Len(sections[i].symbols)])
RelocationCount(sections) ==
    SumSeq([i \in 1..Len(sections) |-> Len(sections[i].relocations)])

HeaderInputs ==
    {TextSectionHeader(0), TextSectionHeader(MaxBits),
     SymbolTableHeader(0, 0), SymbolTableHeader(1, 2),
     RelocationTableHeader(0, 0), RelocationTableHeader(1, 2)}

\* Payloads after the headers: none, zeros (entries of section 0 with the
\* empty name), and zeros after a first byte of 7, which is the section id of
\* the first table entry when no text bytes come before it.
PayloadInputs == {<<>>, Zeros(PayloadLen), <<7>> \o Zeros(PayloadLen - 1)}

NoOrigin == [kind |-> "none", headers |-> <<>>]
NoCall == [op |-> "none", index |-> 0, value |-> 0, before |-> <<>>, result |-> 0,
           panicked |-> FALSE]
NoExecutable == Executable_new("Stack", <<>>)
NoGot == [asked |-> FALSE, section_id |-> 0, symbols |-> <<>>]
NoPlacement == [sections |-> <<>>, architecture |-> "Stack"]
NoLookup == [name |-> <<>>, some |-> FALSE, address |-> 0]
NoRawDefinition ==
    [opcode_length |-> 0, opcode_offset |-> 0, text_byte_length |-> 0, data_byte_length |-> 0,
     text_address_size |-> 0, data_address_size |-> 0, register_groups |-> <<>>,
     commands |-> <<>>]

(***************************************************************************)
(* The object-file life cycle: a producer builds the file section by       *)
(* section, serializes it, and a consumer decodes the bytes, whole or cut  *)
(* short; a decoder may also be handed bytes made from any header list.    *)
(***************************************************************************)
InitObject ==
    /\ symtab = SymbolTable_new
    /\ reltab = RelocationTable_new
    /\ calls = <<>>
    /\ got = NoGot
    /\ placement = NoPlacement
    /\ lookup = NoLookup
    /\ linked = NoResult
    /\ raw = NoRawDefinition
    /\ definition = NoResult
    /\ pc = "new"
    /\ obj \in {ObjectFile_new(a) : a \in Architectures}
    /\ exe = NoExecutable
    /\ data = <<>>
    /\ origin = NoOrigin
    /\ res = NoResult
    /\ byte = 0
    /\ bitvec = <<>>
    /\ call = NoCall

AddSection ==
    /\ pc = "new"
    /\ Len(obj.sections) < MaxSections
    /\ \E section \in SectionInputs :
          /\ SymbolCount(obj.sections) + RelocationCount(obj.sections)
                 + Len(section.symbols) + Len(section.relocations) <= MaxEntries
          /\ obj' = add_section(obj, section)
    /\ UNCHANGED <<pc, exeVars, codecVars, archVars, bitVars, linkVars, defVars, tableVars>>

SerializeObject ==
    /\ pc = "new"
    /\ data' = ObjectFile_serialize(obj)
    /\ origin' = [kind |-> "serialized", headers |-> <<>>]
    /\ pc' = "encoded"
    /\ UNCHANGED <<obj, exe, res, archVars, bitVars, linkVars, defVars, tableVars>>

TruncateObject ==
    /\ pc = "encoded"
    /\ origin.kind = "serialized"
    /\ data' = SubSeq(data, 1, Len(data) - 1)
    /\ origin' = [kind |-> "truncated", headers |-> <<>>]
    /\ UNCHANGED <<pc, obj, exe, res, archVars, bitVars, linkVars, defVars, tableVars>>

CraftObject ==
    /\ pc = "new"
    /\ obj.sections = <<>>
    /\ \E headers \in SeqsUpTo(HeaderInputs, MaxHeaders), payload \in PayloadInputs :
          /\ data' = ObjectHeader_serialize([architecture |-> obj.architecture,
                                             section_count |-> Len(headers)])
                        \o Concat([i \in 1..Len(headers) |->
                                      SectionHeader_serialize(headers[i])])
                        \o payload
          /\ origin' = [kind |-> "crafted", headers |-> headers]
    /\ pc' = "encoded"
    /\ UNCHANGED <<obj, exe, res, archVars, bitVars, linkVars, defVars, tableVars>>

DeserializeObject ==
    /\ pc = "encoded"
    /\ res' = ObjectFile_deserialize(data)
    /\ pc' = "decoded"
    /\ UNCHANGED <<obj, exe, data, origin, archVars, bitVars, linkVars, defVars, tableVars>>

NextObject ==
    \/ AddSection
    \/ SerializeObject
    \/ TruncateObject
    \/ CraftObject
    \/ DeserializeObject

SpecObject == InitObject /\ [][NextObject]_vars


(***************************************************************************)
(* Properties of the object-file container.                                *)
(***************************************************************************)
DecodedFrom(kind) == pc = "decoded" /\ origin.kind = kind

\* C1: deserialize(serialize(O)) succeeds and yields O, for every object
\* file O: the same architecture and the same sections in the same order,
\* each with its bits, symbols and relocations in the order they were added.
C1_ObjectRoundTrip ==
    DecodedFrom("serialized") => (IsOk(res) /\ res.value = obj)

\* C3: deserialize of a serialized form with its last byte removed returns
\* DataTooShort; it neither succeeds, nor returns another error, nor panics.
C3_TruncatedIsDataTooShort ==
    DecodedFrom("truncated") => res = Err("DataTooShort")

NamesLength(names) == SumSeq([i \in 1..Len(names) |-> Len(names[i]) + 1])

PayloadSizes(o) ==
    SumSeq([i \in 1..Len(o.sections) |->
        (Len(o.sections[i].data) + 7) \div 8
        + SymbolEntrySize * Len(o.sections[i].symbols)
        + NamesLength([j \in 1..Len(o.sections[i].symbols) |-> o.sections[i].symbols[j].name])
        + RelocationEntrySize * Len(o.sections[i].relocations)
        + NamesLength([j \in 1..Len(o.sections[i].relocations) |->
                          o.sections[i].relocations[j].symbol])])

ExpectedLength(o) ==
    ObjectHeaderSize + SectionHeaderSize * (Len(o.sections) + 2) + PayloadSizes(o)

\* C4: the serialized form of an object file with N text sections is
\* 9 + 16 * (N + 2) + (the payload sizes) bytes long, and a successful
\* deserialize of it reports exactly that many bytes consumed.
C4_SerializedLength ==
    (pc \in {"encoded", "decoded"} /\ origin.kind = "serialized") =>
        /\ Len(data) = ExpectedLength(obj)
        /\ (pc = "decoded" /\ IsOk(res)) => res.size = ExpectedLength(obj)

C4_Witness ==
    /\ DecodedFrom("serialized")
    /\ IsOk(res)
    /\ Len(obj.sections) = 2
    /\ Len(obj.sections[1].data) = MaxBits
    /\ SymbolCount(obj.sections) > 0
    /\ RelocationCount(obj.sections) > 0

StructurallyWrong(headers) ==
    \/ Len(headers) < 2
    \/ headers[Len(headers) - 1].type # "SymbolTable"
    \/ headers[Len(headers)].type # "RelocationTable"
    \/ \E i \in 1..(Len(headers) - 2) : headers[i].type \in {"SymbolTable", "RelocationTable"}

\* C5: when all section_count headers can be read and the header list is
\* structurally wrong (fewer than two headers, the last two not SymbolTable
\* then RelocationTable, or a table tag on an earlier header), deserialize
\* returns InvalidData.
C5_BadHeaderListIsInvalidData ==
    (DecodedFrom("crafted") /\ StructurallyWrong(origin.headers)) => res = Err("InvalidData")

C5_Witness ==
    /\ DecodedFrom("crafted")
    /\ Len(origin.headers) = 3
    /\ origin.headers[1].type = "RelocationTable"
    /\ origin.headers[2].type = "SymbolTable"
    /\ origin.headers[3].type = "RelocationTable"
    /\ Len(data) > ObjectHeaderSize + SectionHeaderSize * 3
    /\ res = Err("InvalidData")


(***************************************************************************)
(* Architecture bytes: a byte is decoded, or an architecture is encoded    *)
(* and the byte decoded again.                                             *)
(***************************************************************************)
InitArchitecture ==
    /\ symtab = SymbolTable_new
    /\ reltab = RelocationTable_new
    /\ calls = <<>>
    /\ got = NoGot
    /\ placement = NoPlacement
    /\ lookup = NoLookup
    /\ linked = NoResult
    /\ raw = NoRawDefinition
    /\ definition = NoResult
    /\ pc \in {"byte", "choose"}
    /\ byte \in 0..(ByteRange - 1)
    /\ pc = "choose" => byte = 0
    /\ obj = ObjectFile_new("Stack")
    /\ exe = NoExecutable
    /\ data = <<>>
    /\ origin = NoOrigin
    /\ res = NoResult
    /\ bitvec = <<>>
    /\ call = NoCall

EncodeArchitecture ==
    /\ pc = "choose"
    /\ \E a \in Architectures :
          /\ byte' = Architecture_as_u8(a)
          /\ origin' = [kind |-> a, headers |-> <<>>]
    /\ pc' = "byte"
    /\ UNCHANGED <<obj, exe, data, res, bitVars, linkVars, defVars, tableVars>>

DecodeArchitecture ==
    /\ pc = "byte"
    /\ res' = Architecture_try_from(byte)
    /\ pc' = "decoded"
    /\ UNCHANGED <<obj, exe, data, origin, byte, bitVars, linkVars, defVars, tableVars>>

NextArchitecture == EncodeArchitecture \/ DecodeArchitecture

SpecArchitecture == InitArchitecture /\ [][NextArchitecture]_vars

\* C7: the architecture byte 0 decodes to Stack, 1 to Accumulator and 2 to
\* Risc, every other byte b is rejected with InvalidArchitecture(b), and
\* an encoded architecture decodes to itself.
C7_ArchitectureBytes ==
    pc = "decoded" =>
        /\ byte = 0 => res = Ok(1, "Stack")
        /\ byte = 1 => res = Ok(1, "Accumulator")
        /\ byte = 2 => res = Ok(1, "Risc")
        /\ byte >= 3 => res = ErrArg("InvalidArchitecture", byte)
        /\ origin.kind \in Architectures => res = Ok(1, origin.kind)

(***************************************************************************)
(* The bit buffer (address.rs): a 16-bit field read or written at a bit    *)
(* address, the most significant bit first.                                *)
(***************************************************************************)
\* The loop of index, at iteration i with `result` accumulated so far.
RECURSIVE index_loop(_, _, _, _)
index_loop(bits, addr, i, result) ==
    IF i = FieldBits THEN result
    ELSE index_loop(bits, addr, i + 1,
             ((result * 2) % FieldRange)
                 + (IF addr + i < Len(bits) /\ bits[addr + i + 1] THEN 1 ELSE 0))

RECURSIVE index_lsb_loop(_, _, _, _)
index_lsb_loop(bits, addr, i, result) ==
    IF i = FieldBits THEN result
    ELSE index_lsb_loop(bits, addr, i + 1,
             result + (IF addr + i < Len(bits) /\ bits[addr + i + 1] THEN 2 ^ i ELSE 0))

index_lsb_first(bits, addr) == index_lsb_loop(bits, addr, 0, 0)

BitVec_index(bits, addr) == index_loop(bits, addr, 0, 0)

\* The loop of write, at iteration i with `value` shifted so far.  BitVec::set
\* panics on an index at or past the end of the buffer.
RECURSIVE write_loop(_, _, _, _)
write_loop(bits, addr, i, value) ==
    IF i = FieldBits THEN [bits |-> bits, panicked |-> FALSE]
    ELSE IF addr + i < Len(bits)
         THEN IF addr + (FieldBits - 1) - i >= Len(bits)
              THEN [bits |-> bits, panicked |-> TRUE]
              ELSE write_loop([bits EXCEPT ![addr + (FieldBits - 1) - i + 1] = (value % 2 = 1)],
                              addr, i + 1, value \div 2)
         ELSE write_loop(bits, addr, i + 1, value)

RECURSIVE write_forward_loop(_, _, _, _)
write_forward_loop(bits, addr, i, value) ==
    IF i = FieldBits THEN [bits |-> bits, panicked |-> FALSE]
    ELSE IF addr + i < Len(bits)
         THEN write_forward_loop([bits EXCEPT ![addr + i + 1] = (value % 2 = 1)],
                                 addr, i + 1, value \div 2)
         ELSE write_forward_loop(bits, addr, i + 1, value)

write_lsb_first(bits, addr, value) == write_forward_loop(bits, addr, 0, value)

\* A write that refuses a field that is not wholly inside the buffer.
write_whole_field(bits, addr, value) ==
    IF addr + FieldBits > Len(bits) THEN [bits |-> bits, panicked |-> TRUE]
    ELSE write_loop(bits, addr, 0, value)

BitVec_write(bits, addr, value) == write_loop(bits, addr, 0, value)

BufferInputs ==
    {[i \in 1..n |-> FALSE] : n \in 0..MaxBufLen} \cup {[i \in 1..n |-> i % 3 = 1] : n \in 0..MaxBufLen}
AddressInputs == 0..(MaxBufLen + 1)
ValueInputs == {0, 1, 32769, 42435, 65535}

InitBits ==
    /\ symtab = SymbolTable_new
    /\ reltab = RelocationTable_new
    /\ calls = <<>>
    /\ got = NoGot
    /\ placement = NoPlacement
    /\ lookup = NoLookup
    /\ linked = NoResult
    /\ raw = NoRawDefinition
    /\ definition = NoResult
    /\ pc = "idle"
    /\ bitvec \in BufferInputs
    /\ call = NoCall
    /\ obj = ObjectFile_new("Stack")
    /\ exe = NoExecutable
    /\ data = <<>>
    /\ origin = NoOrigin
    /\ res = NoResult
    /\ byte = 0

Write16 ==
    /\ pc = "idle"
    /\ \E a \in AddressInputs, v \in ValueInputs :
          LET r == BitVec_write(bitvec, a, v)
          IN /\ bitvec' = r.bits
             /\ call' = [op |-> "write", index |-> a, value |-> v, before |-> bitvec,
                         result |-> 0, panicked |-> r.panicked]
             /\ pc' = IF r.panicked THEN "panicked" ELSE "written"
    /\ UNCHANGED <<objVars, exeVars, codecVars, archVars, linkVars, defVars, tableVars>>

\* A read at an address of its own, or at the address just written.
Read16 ==
    /\ pc \in {"idle", "written"}
    /\ \E a \in AddressInputs :
          /\ pc = "written" => a = call.index
          /\ call' = [op |-> "read", index |-> a,
                      value |-> IF pc = "written" THEN call.value ELSE 0,
                      before |-> bitvec, result |-> BitVec_index(bitvec, a), panicked |-> FALSE]
    /\ pc' = IF pc = "written" THEN "read_back" ELSE "read"
    /\ UNCHANGED <<bitvec, objVars, exeVars, codecVars, archVars, linkVars, defVars, tableVars>>

NextBits == Write16 \/ Read16

SpecBits == InitBits /\ [][NextBits]_vars

Bit(x, j) == (x \div (2 ^ j)) % 2 = 1
InBuffer(bits, p) == p < Len(bits)

\* C8: read16(a) returns the value whose bit (15 - k) is the buffer bit at
\* a + k when a + k < n and 0 otherwise, for k = 0..15, and leaves the buffer
\* as it was.
C8_Read16 ==
    call.op = "read" =>
        /\ call.result \in 0..(FieldRange - 1)
        /\ \A k \in 0..(FieldBits - 1) :
              Bit(call.result, FieldBits - 1 - k)
                  = (InBuffer(call.before, call.index + k) /\ call.before[call.index + k + 1])
        /\ bitvec = call.before

C8_Witness ==
    /\ call.op = "read"
    /\ pc = "read"
    /\ call.index < Len(bitvec)
    /\ call.index + FieldBits > Len(bitvec)
    /\ call.result # 0

\* C9: write16(a, v) completes without failing even when a + 16 > n; each
\* position a + k < n receives bit (15 - k) of v, the length stays n and no
\* bit outside [a, a + 16) changes.
C9_Write16Truncates ==
    call.op = "write" =>
        /\ ~call.panicked
        /\ Len(bitvec) = Len(call.before)
        /\ \A p \in 0..(Len(bitvec) - 1) :
              IF p >= call.index /\ p < call.index + FieldBits
              THEN bitvec[p + 1] = Bit(call.value, FieldBits - 1 - (p - call.index))
              ELSE bitvec[p + 1] = call.before[p + 1]

\* C10: for a + 16 <= n, read16(a) right after write16(a, v) returns v; and
\* write16(0, 0x8001) on a zeroed 16-bit buffer sets exactly the first and
\* the last bit.
C10_WriteThenRead ==
    /\ (pc = "read_back" /\ call.index + FieldBits <= Len(bitvec)) => call.result = call.value
    /\ (pc = "written" /\ call.index = 0 /\ call.value = 32769
            /\ call.before = [i \in 1..FieldBits |-> FALSE])
           => bitvec = [i \in 1..FieldBits |-> i \in {1, FieldBits}]

C10_Witness ==
    /\ pc = "read_back"
    /\ call.index = 1
    /\ Len(bitvec) = MaxBufLen
    /\ call.value = 42435
    /\ call.result = 42435


(***************************************************************************)
(* The executable life cycle: segments made by Segment::new are pushed     *)
(* through segments_mut, the executable is serialized and decoded again.   *)
(***************************************************************************)
FlagInputs == {SegmentFlags(TRUE, FALSE, TRUE, FALSE), SegmentFlags(FALSE, TRUE, TRUE, TRUE)}

SegmentInputs ==
    {Segment_new(start, (Len(b) + 5) \div 6, Len(b), f, b, s) :
        start \in {0, 3}, b \in BitInputs, f \in FlagInputs,
        s \in SeqsUpTo(SymbolInputs, MaxEntries)}

InitExecutable ==
    /\ symtab = SymbolTable_new
    /\ reltab = RelocationTable_new
    /\ calls = <<>>
    /\ got = NoGot
    /\ placement = NoPlacement
    /\ lookup = NoLookup
    /\ linked = NoResult
    /\ raw = NoRawDefinition
    /\ definition = NoResult
    /\ pc = "new"
    /\ exe \in {Executable_new(a, <<>>) : a \in Architectures}
    /\ obj = ObjectFile_new("Stack")
    /\ data = <<>>
    /\ origin = NoOrigin
    /\ res = NoResult
    /\ byte = 0
    /\ bitvec = <<>>
    /\ call = NoCall

AddSegment ==
    /\ pc = "new"
    /\ Len(exe.segments) < MaxSegments
    /\ \E segment \in SegmentInputs :
          /\ SymbolCount(exe.segments) + Len(segment.symbols) <= MaxEntries
          /\ exe' = [exe EXCEPT !.segments = Append(@, segment)]
    /\ UNCHANGED <<pc, objVars, codecVars, archVars, bitVars, linkVars, defVars, tableVars>>

SerializeExecutable ==
    /\ pc = "new"
    /\ data' = Executable_serialize(exe)
    /\ origin' = [kind |-> "serialized", headers |-> <<>>]
    /\ pc' = "encoded"
    /\ UNCHANGED <<obj, exe, res, archVars, bitVars, linkVars, defVars, tableVars>>

TruncateExecutable ==
    /\ pc = "encoded"
    /\ origin.kind = "serialized"
    /\ data' = SubSeq(data, 1, Len(data) - 1)
    /\ origin' = [kind |-> "truncated", headers |-> <<>>]
    /\ UNCHANGED <<pc, obj, exe, res, archVars, bitVars, linkVars, defVars, tableVars>>

DeserializeExecutable ==
    /\ pc = "encoded"
    /\ res' = Executable_deserialize(data)
    /\ pc' = "decoded"
    /\ UNCHANGED <<obj, exe, data, origin, archVars, bitVars, linkVars, defVars, tableVars>>

NextExecutable ==
    \/ AddSegment
    \/ SerializeExecutable
    \/ TruncateExecutable
    \/ DeserializeExecutable

SpecExecutable == InitExecutable /\ [][NextExecutable]_vars

\* An executable that keeps the container's invariant: no regular segment is
\* marked special.
WellFormedExecutable(e) == \A i \in 1..Len(e.segments) : ~e.segments[i].flags.special

HeaderMarkedSpecial(d, i) ==
    (d[ExecutableHeaderSize + SegmentHeaderSize * i + SegmentHeaderSize] \div 8) % 2 = 1

StackTextByteWidth == 6
OtherTextByteWidth == 8
RelocationLimit == 65536

None == [some |-> FALSE, address |-> 0]
Some(address) == [some |-> TRUE, address |-> address]

PlacedSection_new(section) == [section |-> section, offset |-> 0]

section_type(ps) == "Unified"

AddressSpaces == <<"TextSpace", "DataSpace", "Unified">>

\* The size of a section with the last, partial text-byte not counted.
PlacedSection_size_floor(ps, architecture) ==
    Len(ps.section.data) \div StackTextByteWidth

\* PlacedSection::size matches on Architecture::Stack alone.
PlacedSection_size(ps, architecture) ==
    LET text_byte_width == StackTextByteWidth
    IN (Len(ps.section.data) + text_byte_width - 1) \div text_byte_width

\* The symbol loop of PlacedSection::find_symbol, from the i-th symbol on.
RECURSIVE section_find_from(_, _, _)
section_find_from(ps, name, i) ==
    IF i > Len(ps.section.symbols) THEN None
    ELSE IF ps.section.symbols[i].name = name
         THEN Some(ps.section.symbols[i].address + ps.offset)
         ELSE section_find_from(ps, name, i + 1)

\* The same loop, keeping the last match of the section.
RECURSIVE section_find_last_from(_, _, _)
section_find_last_from(ps, name, i) ==
    IF i < 1 THEN None
    ELSE IF ps.section.symbols[i].name = name
         THEN Some(ps.section.symbols[i].address + ps.offset)
         ELSE section_find_last_from(ps, name, i - 1)

section_find_last(ps, name) == section_find_last_from(ps, name, Len(ps.section.symbols))

PlacedSection_find_symbol(ps, name) == section_find_from(ps, name, 1)

Placement_new(sections, architecture) ==
    [sections |-> sections, architecture |-> architecture]

\* The section loop of Placement::find_symbol, from the i-th section on.
RECURSIVE placement_find_from(_, _, _)
placement_find_from(p, name, i) ==
    IF i > Len(p.sections) THEN None
    ELSE LET address == PlacedSection_find_symbol(p.sections[i], name)
         IN IF address.some THEN address
            ELSE placement_find_from(p, name, i + 1)

\* The same loop, keeping the last match instead of returning the first.
RECURSIVE placement_find_last_from(_, _, _)
placement_find_last_from(p, name, i) ==
    IF i < 1 THEN None
    ELSE LET address == PlacedSection_find_symbol(p.sections[i], name)
         IN IF address.some THEN address
            ELSE placement_find_last_from(p, name, i - 1)

find_symbol_last(p, name) == placement_find_last_from(p, name, Len(p.sections))

Placement_find_symbol(p, name) == placement_find_from(p, name, 1)

\* The inner loop of place for one address space, at the i-th section with
\* `last_end` the end of the sections placed so far.
RECURSIVE place_space(_, _, _, _, _)
place_space(sections, architecture, address_space, i, last_end) ==
    IF i > Len(sections) THEN sections
    ELSE IF section_type(sections[i]) # address_space
         THEN place_space(sections, architecture, address_space, i + 1, last_end)
         ELSE LET moved == [sections[i] EXCEPT !.offset = last_end]
              IN place_space([sections EXCEPT ![i] = moved], architecture, address_space,
                             i + 1, moved.offset + PlacedSection_size(moved, architecture))

\* The outer loop of place, over the address spaces from the k-th on.
RECURSIVE place_spaces(_, _, _)
place_spaces(sections, architecture, k) ==
    IF k > Len(AddressSpaces) THEN sections
    ELSE place_spaces(place_space(sections, architecture, AddressSpaces[k], 1, 0),
                      architecture, k + 1)

place(p) == [p EXCEPT !.sections = place_spaces(@, p.architecture, 1)]

(***************************************************************************)
(* The linker (object_file/sections/common.rs, placed/mod.rs, lib.rs).     *)
(***************************************************************************)
text_byte_width(architecture) ==
    IF architecture = "Stack" THEN StackTextByteWidth ELSE OtherTextByteWidth

\* Division rounding toward minus infinity.
FloorDiv(a, b) == a \div b

\* Division of i64, which truncates toward zero.
TruncDiv(a, b) == IF a >= 0 THEN a \div b ELSE -((-a) \div b)

\* The signed word offset of a relocation against a resolved symbol address.
relocation_offset(symbol, relocation, width) ==
    TruncDiv(IF relocation.relative THEN symbol - relocation.address ELSE symbol, width)

out_of_range(offset) == offset > RelocationLimit \/ offset < -RelocationLimit

\* The field written back when the offset replaces what was there.
patched_value_replacing(bits, relocation, offset) == offset % FieldRange

\* The field written back: the field read, plus the offset as u16, wrapping.
patched_value(bits, relocation, offset) ==
    (BitVec_index(bits, relocation.address) + (offset % FieldRange)) % FieldRange

\* The relocation loop of to_segment, at the k-th relocation with `bits` the
\* buffer patched so far.
RECURSIVE relocate(_, _, _, _, _)
relocate(bits, relocations, k, placement_, width) ==
    IF k > Len(relocations) THEN Ok(0, bits)
    ELSE LET relocation == relocations[k]
             symbol == Placement_find_symbol(placement_, relocation.symbol)
         IN IF ~symbol.some THEN ErrArg("SymbolNotFound", relocation.symbol)
            ELSE LET offset == relocation_offset(symbol.address, relocation, width)
                 IN IF out_of_range(offset)
                    THEN ErrArg("RelocationOutOfRange", relocation.symbol)
                    ELSE LET written == BitVec_write(bits, relocation.address,
                                                     patched_value(bits, relocation, offset))
                         IN IF written.panicked THEN Panic
                            ELSE relocate(written.bits, relocations, k + 1, placement_, width)

\* A relocation loop that reads each field from the section's own bits and
\* not from the copy being patched.
RECURSIVE relocate_reading_original(_, _, _, _, _, _)
relocate_reading_original(original, bits, relocations, k, placement_, width) ==
    IF k > Len(relocations) THEN Ok(0, bits)
    ELSE LET relocation == relocations[k]
             symbol == Placement_find_symbol(placement_, relocation.symbol)
         IN IF ~symbol.some THEN ErrArg("SymbolNotFound", relocation.symbol)
            ELSE LET offset == relocation_offset(symbol.address, relocation, width)
                 IN IF out_of_range(offset)
                    THEN ErrArg("RelocationOutOfRange", relocation.symbol)
                    ELSE LET written == BitVec_write(bits, relocation.address,
                                                     patched_value(original, relocation, offset))
                         IN IF written.panicked THEN Panic
                            ELSE relocate_reading_original(original, written.bits, relocations,
                                                           k + 1, placement_, width)

to_segment_reading_original(section, placement_, offset) ==
    LET width == text_byte_width(placement_.architecture)
        patched == relocate_reading_original(section.data, section.data, section.relocations,
                                             1, placement_, width)
    IN IF ~IsOk(patched) THEN patched
       ELSE Ok(0, Segment_new(offset,
                              (Len(patched.value) + width - 1) \div width,
                              Len(patched.value),
                              SegmentFlags(TRUE, FALSE, TRUE, FALSE),
                              patched.value,
                              section.symbols))

to_segment(section, placement_, offset) ==
    LET width == text_byte_width(placement_.architecture)
        patched == relocate(section.data, section.relocations, 1, placement_, width)
    IN IF ~IsOk(patched) THEN patched
       ELSE Ok(0, Segment_new(offset,
                              (Len(patched.value) + width - 1) \div width,
                              Len(patched.value),
                              SegmentFlags(TRUE, FALSE, TRUE, FALSE),
                              patched.value,
                              section.symbols))

\* map(to_segment).collect() of as_segments, from the i-th section on: the
\* first error ends the iteration.
RECURSIVE collect_segments(_, _, _)
collect_segments(p, i, acc) ==
    IF i > Len(p.sections) THEN Ok(0, acc)
    ELSE LET segment == to_segment(p.sections[i].section, p, p.sections[i].offset)
         IN IF ~IsOk(segment) THEN segment
            ELSE collect_segments(p, i + 1, Append(acc, segment.value))

\* The same iteration going on after an error and returning the last one.
RECURSIVE collect_all_segments(_, _, _, _)
collect_all_segments(p, i, acc, failure) ==
    IF i > Len(p.sections) THEN (IF IsOk(failure) THEN Ok(0, acc) ELSE failure)
    ELSE LET segment == to_segment(p.sections[i].section, p, p.sections[i].offset)
         IN IF ~IsOk(segment) THEN collect_all_segments(p, i + 1, acc, segment)
            ELSE collect_all_segments(p, i + 1, Append(acc, segment.value), failure)

as_segments_last_error(p) == collect_all_segments(p, 1, <<>>, Ok(0, <<>>))

as_segments(p) == collect_segments(p, 1, <<>>)

\* impl TryFrom<ObjectFile> for Executable: the placement it builds and places.
placed_of(object) ==
    place(Placement_new([i \in 1..Len(object.sections) |->
                            PlacedSection_new(object.sections[i])],
                        object.architecture))

\* A conversion that leaves the placement unplaced.
Executable_try_from_unplaced(object) ==
    LET segments == as_segments(Placement_new([i \in 1..Len(object.sections) |->
                                                  PlacedSection_new(object.sections[i])],
                                              object.architecture))
    IN IF ~IsOk(segments) THEN segments
       ELSE Ok(0, Executable_new(object.architecture, segments.value))

Executable_try_from(object) ==
    LET segments == as_segments(placed_of(object))
    IN IF ~IsOk(segments) THEN segments
       ELSE Ok(0, Executable_new(object.architecture, segments.value))

(***************************************************************************)
(* Linking: sections are added to an object file, the object file becomes  *)
(* a Placement that is placed, queried for symbols and turned into         *)
(* segments; or the object file is converted to an Executable in one call. *)
(***************************************************************************)
NameA == <<97>>
NameB == <<98, 99>>
NameU == <<117>>
LinkNames == {NameA, NameB, NameU}

ZeroBits(n) == [i \in 1..n |-> FALSE]
OneBits(n) == [i \in 1..n |-> TRUE]
TextSection(bits, symbols, relocations) ==
    [data |-> bits, symbols |-> symbols, relocations |-> relocations]

\* Symbol addresses and relocation sites far from the buffer: 65536 text-bytes
\* in bits, one text-byte more, and a site past both.
FarBits == StackTextByteWidth * RelocationLimit
FartherBits == FarBits + StackTextByteWidth
FarSite == FartherBits + FieldBits

LinkSectionInputs ==
    {TextSection(<<>>, <<>>, <<>>),
     TextSection(ZeroBits(18), <<Symbol(NameA, 12)>>, <<Relocation(NameA, 0, FALSE)>>),
     TextSection(ZeroBits(76), <<Symbol(NameA, 600)>>, <<Relocation(NameA, 60, FALSE)>>),
     TextSection(ZeroBits(76), <<Symbol(NameA, 600)>>, <<Relocation(NameA, 60, TRUE)>>),
     TextSection(ZeroBits(18), <<Symbol(NameA, 12), Symbol(NameA, 0)>>,
                 <<Relocation(NameA, 0, FALSE)>>),
     TextSection(ZeroBits(18), <<Symbol(NameB, 12)>>, <<>>),
     TextSection(OneBits(16), <<>>, <<Relocation(NameB, 0, FALSE)>>),
     TextSection(ZeroBits(18), <<>>, <<Relocation(NameU, 0, FALSE)>>),
     TextSection(ZeroBits(18), <<Symbol(NameB, FarBits)>>,
                 <<Relocation(NameB, FarSite, FALSE)>>),
     TextSection(ZeroBits(18), <<Symbol(NameB, FartherBits)>>,
                 <<Relocation(NameB, 0, FALSE), Relocation(NameU, 0, FALSE)>>),
     TextSection(ZeroBits(18), <<Symbol(NameB, FartherBits)>>,
                 <<Relocation(NameU, 0, FALSE), Relocation(NameB, 0, FALSE)>>),
     TextSection(ZeroBits(18), <<Symbol(NameA, 0)>>, <<Relocation(NameA, FarBits, TRUE)>>),
     TextSection(ZeroBits(18), <<Symbol(NameA, 0)>>, <<Relocation(NameA, FartherBits, TRUE)>>),
     TextSection(ZeroBits(18), <<Symbol(NameA, 12)>>, <<Relocation(NameA, 6, FALSE)>>),
     TextSection(ZeroBits(18), <<Symbol(NameA, 12)>>,
                 <<Relocation(NameA, 0, FALSE), Relocation(NameA, 0, FALSE)>>),
     TextSection(ZeroBits(40), <<Symbol(NameA, 0), Symbol(NameB, 7)>>,
                 <<Relocation(NameA, 7, TRUE), Relocation(NameB, 24, FALSE)>>),
     TextSection(ZeroBits(40), <<Symbol(NameA, 0), Symbol(NameB, 19)>>,
                 <<Relocation(NameA, 7, TRUE), Relocation(NameB, 7, TRUE)>>),
     TextSection(ZeroBits(18), <<Symbol(NameA, 0)>>,
                 <<Relocation(NameA, FarBits + 1, TRUE), Relocation(NameU, 18, FALSE)>>),
     TextSection(ZeroBits(18), <<Symbol(NameA, 12)>>, <<Relocation(NameA, 18, FALSE)>>)}

InitLink ==
    /\ symtab = SymbolTable_new
    /\ reltab = RelocationTable_new
    /\ calls = <<>>
    /\ got = NoGot
    /\ pc = "new"
    /\ obj = ObjectFile_new("Stack")
    /\ placement = NoPlacement
    /\ lookup = NoLookup
    /\ linked = NoResult
    /\ exe = NoExecutable
    /\ data = <<>>
    /\ origin = NoOrigin
    /\ res = NoResult
    /\ byte = 0
    /\ bitvec = <<>>
    /\ call = NoCall
    /\ raw = NoRawDefinition
    /\ definition = NoResult

AddLinkSection ==
    /\ pc = "new"
    /\ Len(obj.sections) < MaxPlaced
    /\ \E section \in LinkSectionInputs : obj' = add_section(obj, section)
    /\ UNCHANGED <<pc, exeVars, codecVars, archVars, bitVars, linkVars, defVars, tableVars>>

NewPlacement ==
    /\ pc = "new"
    /\ placement' = Placement_new([i \in 1..Len(obj.sections) |->
                                      PlacedSection_new(obj.sections[i])],
                                  obj.architecture)
    /\ pc' = "unplaced"
    /\ UNCHANGED <<obj, lookup, linked, exeVars, codecVars, archVars, bitVars, defVars, tableVars>>

Place ==
    /\ pc = "unplaced"
    /\ placement' = place(placement)
    /\ lookup' = NoLookup
    /\ pc' = "placed"
    /\ UNCHANGED <<obj, linked, exeVars, codecVars, archVars, bitVars, defVars, tableVars>>

FindSymbol ==
    /\ pc \in {"unplaced", "placed"}
    /\ \E name \in LinkNames :
          LET address == Placement_find_symbol(placement, name)
          IN lookup' = [name |-> name, some |-> address.some, address |-> address.address]
    /\ UNCHANGED <<pc, obj, placement, linked, exeVars, codecVars, archVars, bitVars, defVars, tableVars>>

\* What a to_segment that patched the section's own buffer would leave.
patched_in_place(p) ==
    [p EXCEPT !.sections =
        [i \in 1..Len(p.sections) |->
            LET section == p.sections[i].section
                patched == relocate(section.data, section.relocations, 1, p,
                                    text_byte_width(p.architecture))
            IN IF IsOk(patched) THEN [p.sections[i] EXCEPT !.section.data = patched.value]
               ELSE p.sections[i]]]

AsSegmentsInPlace ==
    /\ pc \in {"unplaced", "placed", "linked"}
    /\ lookup = NoLookup
    /\ linked' = as_segments(placement)
    /\ calls' = Append(calls, [placement |-> placement, result |-> linked'])
    /\ placement' = patched_in_place(placement)
    /\ pc' = (IF pc = "linked" THEN "relinked" ELSE "linked")
    /\ UNCHANGED <<obj, lookup, exeVars, codecVars, archVars, bitVars, defVars,
                   symtab, reltab, got>>

\* as_segments takes &self and to_segment patches a clone of the section's
\* bits; the call is logged with the placement it was made on, and it is made
\* once or twice.  The queries of FindSymbol are observations that have no
\* part in the link, which is therefore followed from the states without one.
AsSegments ==
    /\ pc \in {"unplaced", "placed", "linked"}
    /\ lookup = NoLookup
    /\ linked' = as_segments(placement)
    /\ calls' = Append(calls, [placement |-> placement, result |-> linked'])
    /\ pc' = (IF pc = "linked" THEN "relinked" ELSE "linked")
    /\ UNCHANGED <<obj, placement, lookup, exeVars, codecVars, archVars, bitVars, defVars,
                   symtab, reltab, got>>

TryFromObject ==
    /\ pc = "new"
    /\ placement' = placed_of(obj)
    /\ linked' = Executable_try_from(obj)
    /\ pc' = "converted"
    /\ UNCHANGED <<obj, lookup, exeVars, codecVars, archVars, bitVars, defVars, tableVars>>

NextLink ==
    \/ AddLinkSection
    \/ NewPlacement
    \/ Place
    \/ FindSymbol
    \/ AsSegments
    \/ TryFromObject

SpecLink == InitLink /\ [][NextLink]_vars

(***************************************************************************)
(* Properties of the placer.                                               *)
(***************************************************************************)
CeilDiv(n, w) == IF n % w = 0 THEN n \div w ELSE (n \div w) + 1

Placed == pc \in {"placed", "converted"}

BitLen(i) == Len(placement.sections[i].section.data)
Offset(i) == placement.sections[i].offset
Width == text_byte_width(placement.architecture)

\* C11: after place() the first section is at offset 0 and every later
\* section at the previous section's offset plus ceil(previous bit length /
\* text_byte_width), in the supplied order; so for i < j, offset_j >=
\* offset_i + ceil(bitlen_i / text_byte_width).
C11_PlacedInOrder ==
    Placed =>
        /\ Len(placement.sections) = Len(obj.sections)
        /\ \A i \in 1..Len(placement.sections) :
              /\ placement.sections[i].section = obj.sections[i]
              /\ i = 1 => Offset(i) = 0
              /\ i > 1 => Offset(i) = Offset(i - 1) + CeilDiv(BitLen(i - 1), Width)
        /\ \A i, j \in 1..Len(placement.sections) :
              i < j => Offset(j) >= Offset(i) + CeilDiv(BitLen(i), Width)

\* Two sections placed, the first ending inside a text-byte.
C11_Witness ==
    /\ pc = "placed"
    /\ Len(placement.sections) = 2
    /\ BitLen(1) % Width # 0
    /\ Offset(2) = CeilDiv(BitLen(1), Width)
    /\ Offset(2) > BitLen(1) \div Width

(***************************************************************************)
(* Properties of symbol lookup.  Symbols are taken in placement order:     *)
(* section by section, and within a section as listed.                     *)
(***************************************************************************)
SymbolAt(i, j) == placement.sections[i].section.symbols[j]
SymbolPositions ==
    UNION {{<<i, j>> : j \in 1..Len(placement.sections[i].section.symbols)} :
              i \in 1..Len(placement.sections)}
Before(x, y) == x[1] < y[1] \/ (x[1] = y[1] /\ x[2] < y[2])
Definitions(name) == {x \in SymbolPositions : SymbolAt(x[1], x[2]).name = name}
FirstDefinition(name) ==
    CHOOSE x \in Definitions(name) : \A y \in Definitions(name) : y = x \/ Before(x, y)

\* The address find_symbol hands out for the symbol at position x: the
\* symbol's address plus the offset of its section.
AddressOf(x) == SymbolAt(x[1], x[2]).address + Offset(x[1])

Queried == pc \in {"unplaced", "placed"} /\ lookup # NoLookup

\* C12: find_symbol(name) returns None exactly when no symbol of any placed
\* section has that name, and otherwise the address of the first symbol with
\* that name, sections in placement order and symbols as listed; later
\* definitions of the name do not matter.
C12_FirstDefinitionWins ==
    Queried =>
        /\ ~lookup.some <=> Definitions(lookup.name) = {}
        /\ lookup.some => lookup.address = AddressOf(FirstDefinition(lookup.name))

\* A name found that has a later definition with another address.
C12_Witness ==
    /\ Queried
    /\ lookup.some
    /\ \E y \in Definitions(lookup.name) :
          /\ Before(FirstDefinition(lookup.name), y)
          /\ y[1] > FirstDefinition(lookup.name)[1]
          /\ AddressOf(y) # lookup.address

\* C13: for a symbol with section-relative bit address a in a section placed
\* at offset O text-bytes, find_symbol returns a + O * text_byte_width.
C13_GlobalBitAddress ==
    (Queried /\ lookup.some) =>
        LET x == FirstDefinition(lookup.name)
        IN lookup.address = SymbolAt(x[1], x[2]).address + Offset(x[1]) * Width

(***************************************************************************)
(* Properties of the link.  Relocations are processed section by section   *)
(* in placement order and, within a section, as listed.  What happens to   *)
(* one relocation is fixed by the placement alone: its symbol is defined   *)
(* or not, its word offset is in range or not, and its 16-bit field lies   *)
(* inside the buffer, past its end, or across its end.                     *)
(***************************************************************************)
Linked == pc \in {"linked", "converted"}

LinkedSegments == IF pc = "converted" THEN linked.value.segments ELSE linked.value

RelocationAt(x) == placement.sections[x[1]].section.relocations[x[2]]
RelocationPositions ==
    UNION {{<<i, k>> : k \in 1..Len(placement.sections[i].section.relocations)} :
              i \in 1..Len(placement.sections)}

Defined(name) == Definitions(name) # {}

\* The signed word offset of the relocation at x, from the address
\* find_symbol gives the first definition; the quotient rounds toward zero.
Displacement(x) ==
    LET r == RelocationAt(x)
        symbol == AddressOf(FirstDefinition(r.symbol))
    IN IF r.relative THEN symbol - r.address ELSE symbol
WordOffset(x) ==
    IF Displacement(x) >= 0 THEN Displacement(x) \div Width
    ELSE 0 - ((0 - Displacement(x)) \div Width)

InRange(offset) == 0 - RelocationLimit <= offset /\ offset <= RelocationLimit

FieldInside(x) == RelocationAt(x).address + FieldBits <= BitLen(x[1])
FieldAcrossEnd(x) ==
    /\ RelocationAt(x).address < BitLen(x[1])
    /\ BitLen(x[1]) < RelocationAt(x).address + FieldBits

Fate(x) ==
    IF ~Defined(RelocationAt(x).symbol) THEN "SymbolNotFound"
    ELSE IF ~InRange(WordOffset(x)) THEN "RelocationOutOfRange"
    ELSE IF FieldAcrossEnd(x) THEN "Panic"
    ELSE "Patched"

First(S) == CHOOSE x \in S : \A y \in S : y = x \/ Before(x, y)
Reached(x) == \A y \in RelocationPositions : Before(y, x) => Fate(y) = "Patched"

\* The buffer of section i as it is before its k-th relocation is applied.
BufferBefore(i, k) ==
    relocate(placement.sections[i].section.data,
             SubSeq(placement.sections[i].section.relocations, 1, k - 1),
             1, placement, Width).value

Duplicated(name) == Cardinality(Definitions(name)) >= 2
ReferencedDuplicate == \E x \in RelocationPositions : Duplicated(RelocationAt(x).symbol)

Undefined == {x \in RelocationPositions : ~Defined(RelocationAt(x).symbol)}
Failures == {x \in RelocationPositions : Fate(x) # "Patched"}

\* C15 as stated: if any relocation names a symbol defined in no section the
\* link returns SymbolNotFound with that symbol's name, and SymbolNotFound
\* is never returned when every relocation's symbol is defined.
C15_UndefinedIsSymbolNotFound ==
    Linked =>
        /\ Undefined # {} =>
              /\ linked.tag = "Err"
              /\ linked.err = "SymbolNotFound"
              /\ \E x \in Undefined : linked.arg = RelocationAt(x).symbol
        /\ Undefined = {} => linked.err # "SymbolNotFound"

\* C15 as amended: if any relocation names a symbol defined in no section
\* the link produces no executable; it returns SymbolNotFound with that
\* symbol's name when that relocation is the first in processing order not
\* to be patched; a SymbolNotFound returned carries the name of the first
\* relocation whose symbol is undefined; and SymbolNotFound is never
\* returned when every relocation's symbol is defined.
C15_FirstUndefinedIsSymbolNotFound ==
    Linked =>
        /\ Undefined # {} => ~IsOk(linked)
        /\ (Failures # {} /\ Fate(First(Failures)) = "SymbolNotFound") =>
              linked = ErrArg("SymbolNotFound", RelocationAt(First(Failures)).symbol)
        /\ linked.err = "SymbolNotFound" =>
              /\ Undefined # {}
              /\ linked.arg = RelocationAt(First(Undefined)).symbol
        /\ Undefined = {} => linked.err # "SymbolNotFound"

\* SymbolNotFound is returned for a relocation that is not the first one
\* processed.
C15_Witness ==
    /\ Linked
    /\ linked.err = "SymbolNotFound"
    /\ Undefined # {}
    /\ \E y \in RelocationPositions : Before(y, First(Undefined))

\* C16: a relocation whose symbol resolves makes the link fail with
\* RelocationOutOfRange(symbol) exactly when its word offset is above 65536
\* or below -65536; with any offset from -65536 to 65536 it is accepted and
\* patched, so the link goes on to the next relocation or to its end.
C16_RangeCheck ==
    Linked =>
        \A x \in RelocationPositions :
            (Reached(x) /\ Defined(RelocationAt(x).symbol)) =>
                /\ (WordOffset(x) > RelocationLimit \/ WordOffset(x) < 0 - RelocationLimit)
                      => linked = ErrArg("RelocationOutOfRange", RelocationAt(x).symbol)
                /\ (0 - RelocationLimit <= WordOffset(x) /\ WordOffset(x) <= RelocationLimit)
                      => \/ IsOk(linked)
                         \/ \E y \in Failures : Before(x, y)

\* C17: an accepted relocation whose field lies inside the buffer leaves at
\* its site the value read there just before plus the word offset, modulo
\* 2^16.  On a zero field, with text_byte_width 6, symbol at bit 600 and site
\* at bit 60, an absolute relocation leaves 100 and a relative one 90; symbol
\* at bit 12 and site 0 leave 2.
ExampleField(symbol_bits, site, relative, length) ==
    TextSection(ZeroBits(length), <<Symbol(NameA, symbol_bits)>>,
                <<Relocation(NameA, site, relative)>>)

C17_PatchAdds ==
    Linked =>
        /\ \A x \in RelocationPositions :
              (Reached(x) /\ Fate(x) = "Patched" /\ FieldInside(x)) =>
                  BitVec_index(BufferBefore(x[1], x[2] + 1), RelocationAt(x).address)
                     = (BitVec_index(BufferBefore(x[1], x[2]), RelocationAt(x).address)
                           + (WordOffset(x) % FieldRange)) % FieldRange
        /\ \A i \in 1..Len(placement.sections) :
              (IsOk(linked) /\ placement.sections[i].section.relocations # <<>>) =>
                  LinkedSegments[i].data
                     = BufferBefore(i, Len(placement.sections[i].section.relocations) + 1)
        /\ (IsOk(linked) /\ Len(placement.sections) >= 1 /\ Width = 6) =>
              LET first == placement.sections[1].section
                  field(site) == BitVec_index(LinkedSegments[1].data, site)
              IN /\ first = ExampleField(600, 60, FALSE, 76) => field(60) = 100
                 /\ first = ExampleField(600, 60, TRUE, 76) => field(60) = 90
                 /\ first = ExampleField(12, 0, FALSE, 18) => field(0) = 2

\* A field that is not zero gets an offset that is not zero, and the sum wraps.
C17_Witness ==
    /\ Linked
    /\ IsOk(linked)
    /\ \E x \in RelocationPositions :
          /\ FieldInside(x)
          /\ WordOffset(x) # 0
          /\ BitVec_index(BufferBefore(x[1], x[2]), RelocationAt(x).address) + WordOffset(x)
                >= FieldRange

\* C18: a link returns a complete executable or an error; if a relocation
\* fails, the result is the error of the first failing relocation in
\* processing order, the symbol looked up before the range is checked, and
\* nothing else is returned.
LinkErrors == {x \in RelocationPositions :
                  \/ ~Defined(RelocationAt(x).symbol)
                  \/ ~InRange(WordOffset(x))}

C18_FirstErrorOnly ==
    Linked =>
        /\ linked.tag \in {"Ok", "Err"}
        /\ LinkErrors # {} =>
              linked = ErrArg(IF Defined(RelocationAt(First(LinkErrors)).symbol)
                              THEN "RelocationOutOfRange" ELSE "SymbolNotFound",
                              RelocationAt(First(LinkErrors)).symbol)
        /\ LinkErrors = {} =>
              /\ IsOk(linked)
              /\ Len(LinkedSegments) = Len(placement.sections)

\* The same, for placements in which no field lies across the end of its
\* buffer.
LinkWithoutFieldAcrossEnd ==
    (Linked /\ \A x \in RelocationPositions : ~FieldAcrossEnd(x)) =>
        /\ C18_FirstErrorOnly
        /\ C16_RangeCheck

(***************************************************************************)
(* The ISA definition (definition.rs).  Every field is a u8; a register    *)
(* group map is a sequence of <<name, length>> pairs with distinct names.  *)
(* An addition of u8 that exceeds 255 panics in a build with overflow      *)
(* checks and wraps in a build without them.                               *)
(***************************************************************************)
Builds == {"checked", "unchecked"}

Register(group) == [type |-> "register", group |-> group, bits |-> 0]
DataAddress(bits) == [type |-> "data_address", group |-> "", bits |-> bits]
TextAddress(bits) == [type |-> "text_address", group |-> "", bits |-> bits]
Padding(bits) == [type |-> "padding", group |-> "", bits |-> bits]
Immediate(bits) == [type |-> "immediate", group |-> "", bits |-> bits]

RawCommandDefinition(mnemonic, opcode, arguments) ==
    [mnemonic |-> mnemonic, opcode |-> opcode, arguments |-> arguments]

groups_contains(groups, name) == \E g \in 1..Len(groups) : groups[g][1] = name
groups_get(groups, name) ==
    groups[CHOOSE g \in 1..Len(groups) : groups[g][1] = name][2]

\* ArgumentDefinition::try_from: a register argument takes its group.
ArgumentDefinition_try_from(argument, groups) ==
    IF argument.type = "register"
    THEN IF groups_contains(groups, argument.group)
         THEN Ok(0, [argument EXCEPT !.bits = groups_get(groups, argument.group)])
         ELSE Err("Register group not found")
    ELSE Ok(0, argument)

ArgumentDefinition_size(argument) == argument.bits

\* collect() of the converted arguments, from the i-th on.
RECURSIVE collect_arguments(_, _, _, _)
collect_arguments(arguments, groups, i, acc) ==
    IF i > Len(arguments) THEN Ok(0, acc)
    ELSE LET a == ArgumentDefinition_try_from(arguments[i], groups)
         IN IF ~IsOk(a) THEN a
            ELSE collect_arguments(arguments, groups, i + 1, Append(acc, a.value))

CommandDefinition_try_from(command, groups) ==
    LET arguments == collect_arguments(command.arguments, groups, 1, <<>>)
    IN IF ~IsOk(arguments) THEN arguments
       ELSE Ok(0, [command EXCEPT !.arguments = arguments.value])

RECURSIVE collect_commands(_, _, _, _)
collect_commands(commands, groups, i, acc) ==
    IF i > Len(commands) THEN Ok(0, acc)
    ELSE LET c == CommandDefinition_try_from(commands[i], groups)
         IN IF ~IsOk(c) THEN c
            ELSE collect_commands(commands, groups, i + 1, Append(acc, c.value))

\* An addition of two u8.
u8_add(a, b, build) ==
    IF a + b < ByteRange THEN [panicked |-> FALSE, value |-> a + b]
    ELSE IF build = "checked" THEN [panicked |-> TRUE, value |-> 0]
    ELSE [panicked |-> FALSE, value |-> (a + b) % ByteRange]

\* iter().map(size).sum() of arguments_size, from the i-th argument on.
RECURSIVE sum_sizes(_, _, _, _)
sum_sizes(arguments, i, acc, build) ==
    IF i > Len(arguments) THEN [panicked |-> FALSE, value |-> acc]
    ELSE LET s == u8_add(acc, ArgumentDefinition_size(arguments[i]), build)
         IN IF s.panicked THEN s ELSE sum_sizes(arguments, i + 1, s.value, build)

arguments_size(command, build) == sum_sizes(command.arguments, 1, 0, build)

\* The address-size loop, at argument j of command i.
RECURSIVE address_mismatch(_, _, _, _)
address_mismatch(commands, address_size, i, j) ==
    IF i > Len(commands) THEN NoResult
    ELSE IF j > Len(commands[i].arguments)
         THEN address_mismatch(commands, address_size, i + 1, 1)
         ELSE LET a == commands[i].arguments[j]
              IN IF a.type = "data_address" /\ a.bits # address_size
                 THEN Err("Data address size mismatch")
                 ELSE IF a.type = "text_address" /\ a.bits # address_size
                      THEN Err("Text address size mismatch")
                      ELSE address_mismatch(commands, address_size, i, j + 1)

\* The opcode loop keyed by mnemonic instead of opcode.
RECURSIVE duplicate_mnemonic_from(_, _)
duplicate_mnemonic_from(commands, i) ==
    IF i > Len(commands) THEN NoResult
    ELSE IF \E h \in 1..(i - 1) : commands[h].mnemonic = commands[i].mnemonic
         THEN LET h == CHOOSE h \in 1..(i - 1) : commands[h].mnemonic = commands[i].mnemonic
              IN ErrArg("Duplicate opcode",
                        <<commands[i].opcode, commands[h].mnemonic, commands[i].mnemonic>>)
         ELSE duplicate_mnemonic_from(commands, i + 1)

duplicate_mnemonic(commands) == duplicate_mnemonic_from(commands, 1)

\* The opcode loop, at command i: the map holds the commands before it, whose
\* opcodes are distinct.
RECURSIVE duplicate_opcode_from(_, _)
duplicate_opcode_from(commands, i) ==
    IF i > Len(commands) THEN NoResult
    ELSE IF \E h \in 1..(i - 1) : commands[h].opcode = commands[i].opcode
         THEN LET h == CHOOSE h \in 1..(i - 1) : commands[h].opcode = commands[i].opcode
              IN ErrArg("Duplicate opcode",
                        <<commands[i].opcode, commands[h].mnemonic, commands[i].mnemonic>>)
         ELSE duplicate_opcode_from(commands, i + 1)

duplicate_opcode(commands) == duplicate_opcode_from(commands, 1)

\* The divisibility loop, at command i.  The remainder by zero panics, and
\* the message adds the two sizes once more.
RECURSIVE indivisible_from(_, _, _, _, _)
indivisible_from(commands, opcode_length, text_byte_length, i, build) ==
    IF i > Len(commands) THEN NoResult
    ELSE LET arguments == arguments_size(commands[i], build)
             size == u8_add(opcode_length, arguments.value, build)
         IN IF arguments.panicked \/ size.panicked \/ text_byte_length = 0 THEN Panic
            ELSE IF size.value % text_byte_length # 0
                 THEN ErrArg("Command size not divisible by text byte length",
                             <<commands[i].mnemonic, size.value>>)
                 ELSE indivisible_from(commands, opcode_length, text_byte_length, i + 1, build)

\* A validation that looks at the commands before the address sizes.
Definition_try_from_sizes_last(r, build) ==
    LET commands == collect_commands(r.commands, r.register_groups, 1, <<>>)
    IN IF ~IsOk(commands) THEN commands
       ELSE IF r.text_address_size # r.data_address_size
       THEN Err("Differing text and data address sizes are not supported")
       ELSE LET d == [opcode_length |-> r.opcode_length,
                      opcode_offset |-> r.opcode_offset,
                      text_byte_length |-> r.text_byte_length,
                      data_byte_length |-> r.data_byte_length,
                      address_size |-> r.text_address_size,
                      register_groups |-> r.register_groups,
                      commands |-> commands.value]
                mismatch == address_mismatch(d.commands, d.address_size, 1, 1)
                duplicate == duplicate_opcode(d.commands)
                indivisible == indivisible_from(d.commands, d.opcode_length,
                                                d.text_byte_length, 1, build)
            IN IF mismatch.tag # "None" THEN mismatch
               ELSE IF duplicate.tag # "None" THEN duplicate
               ELSE IF indivisible.tag # "None" THEN indivisible
               ELSE Ok(0, d)

Definition_try_from(r, build) ==
    IF r.text_address_size # r.data_address_size
    THEN Err("Differing text and data address sizes are not supported")
    ELSE LET commands == collect_commands(r.commands, r.register_groups, 1, <<>>)
         IN IF ~IsOk(commands) THEN commands
            ELSE LET d == [opcode_length |-> r.opcode_length,
                           opcode_offset |-> r.opcode_offset,
                           text_byte_length |-> r.text_byte_length,
                           data_byte_length |-> r.data_byte_length,
                           address_size |-> r.text_address_size,
                           register_groups |-> r.register_groups,
                           commands |-> commands.value]
                     mismatch == address_mismatch(d.commands, d.address_size, 1, 1)
                     duplicate == duplicate_opcode(d.commands)
                     indivisible == indivisible_from(d.commands, d.opcode_length,
                                                     d.text_byte_length, 1, build)
                 IN IF mismatch.tag # "None" THEN mismatch
                    ELSE IF duplicate.tag # "None" THEN duplicate
                    ELSE IF indivisible.tag # "None" THEN indivisible
                    ELSE Ok(0, d)

(***************************************************************************)
(* Validating a definition: a raw definition is put together command by    *)
(* command and handed to Definition::try_from.                             *)
(***************************************************************************)
GroupInputs == <<<<"r", 3>>>>

CommandInputs ==
    {RawCommandDefinition("nop", 1, <<>>),
     RawCommandDefinition("add", 2, <<Register("r"), Register("r")>>),
     RawCommandDefinition("jmp", 1, <<TextAddress(12)>>),
     RawCommandDefinition("ld", 3, <<DataAddress(10)>>),
     RawCommandDefinition("odd", 4, <<Immediate(7)>>),
     RawCommandDefinition("big", 5, <<Immediate(250)>>),
     RawCommandDefinition("mov", 2, <<Register("q")>>),
     RawCommandDefinition("wide", 6, <<Immediate(128), Padding(128)>>),
     RawCommandDefinition("long", 7, <<Immediate(252)>>)}

InitDefinition ==
    /\ symtab = SymbolTable_new
    /\ reltab = RelocationTable_new
    /\ calls = <<>>
    /\ got = NoGot
    /\ pc = "raw"
    /\ raw \in {[NoRawDefinition EXCEPT !.opcode_length = 6,
                                        !.text_byte_length = t,
                                        !.data_byte_length = 8,
                                        !.text_address_size = a,
                                        !.data_address_size = 12,
                                        !.register_groups = GroupInputs] :
                   t \in {0, 6}, a \in {10, 12}}
    /\ definition = NoResult
    /\ placement = NoPlacement
    /\ lookup = NoLookup
    /\ linked = NoResult
    /\ obj = ObjectFile_new("Stack")
    /\ exe = NoExecutable
    /\ data = <<>>
    /\ origin = NoOrigin
    /\ res = NoResult
    /\ byte = 0
    /\ bitvec = <<>>
    /\ call = NoCall

AddCommand ==
    /\ pc = "raw"
    /\ Len(raw.commands) < MaxCommands
    /\ \E command \in CommandInputs : raw' = [raw EXCEPT !.commands = Append(@, command)]
    /\ UNCHANGED <<pc, definition, objVars, exeVars, codecVars, archVars, bitVars, linkVars, tableVars>>

Validate ==
    /\ pc = "raw"
    /\ \E build \in Builds : definition' = Definition_try_from(raw, build)
    /\ pc' = "validated"
    /\ UNCHANGED <<raw, objVars, exeVars, codecVars, archVars, bitVars, linkVars, tableVars>>

NextDefinition == AddCommand \/ Validate

SpecDefinition == InitDefinition /\ [][NextDefinition]_vars

(***************************************************************************)
(* Properties of the validation, stated on the raw definition.             *)
(***************************************************************************)
Validated == pc = "validated"

GroupLength(name) ==
    IF groups_contains(raw.register_groups, name) THEN groups_get(raw.register_groups, name)
    ELSE 0
ArgumentBits(a) == IF a.type = "register" THEN GroupLength(a.group) ELSE a.bits

\* The size of a command as an unbounded integer.
TrueSize(c) ==
    raw.opcode_length + SumSeq([j \in 1..Len(c.arguments) |-> ArgumentBits(c.arguments[j])])

Divides(t, n) == \E q \in 0..n : q * t = n

GroupsResolve ==
    \A i \in 1..Len(raw.commands) : \A j \in 1..Len(raw.commands[i].arguments) :
        LET a == raw.commands[i].arguments[j]
        IN a.type = "register" => groups_contains(raw.register_groups, a.group)

AddressesMatch ==
    \A i \in 1..Len(raw.commands) : \A j \in 1..Len(raw.commands[i].arguments) :
        LET a == raw.commands[i].arguments[j]
        IN a.type \in {"data_address", "text_address"} => a.bits = raw.text_address_size

OtherwiseValid ==
    /\ raw.text_address_size = raw.data_address_size
    /\ GroupsResolve
    /\ AddressesMatch

DistinctOpcodes(commands) ==
    \A i, j \in 1..Len(commands) : i # j => commands[i].opcode # commands[j].opcode

\* C19: a raw definition is accepted only if the true size of every command,
\* opcode_length plus the bits of its arguments as an unbounded integer, is
\* divisible by text_byte_length; a command that is not yields the
\* 'Command size not divisible by text byte length' error.
C19_SizeDivisible ==
    (Validated /\ raw.text_byte_length # 0) =>
        /\ IsOk(definition) =>
              \A i \in 1..Len(raw.commands) :
                  Divides(raw.text_byte_length, TrueSize(raw.commands[i]))
        /\ (/\ OtherwiseValid
            /\ DistinctOpcodes(raw.commands)
            /\ \E i \in 1..Len(raw.commands) :
                  ~Divides(raw.text_byte_length, TrueSize(raw.commands[i])))
              => /\ definition.tag = "Err"
                 /\ definition.err = "Command size not divisible by text byte length"

\* The same, for definitions whose command sizes all fit a u8.
C19_WithinU8 ==
    (\A i \in 1..Len(raw.commands) : TrueSize(raw.commands[i]) < ByteRange)
        => C19_SizeDivisible

\* C20: two commands with the same opcode in an otherwise valid raw
\* definition yield the 'Duplicate opcode' error, and the commands of an
\* accepted Definition have pairwise distinct opcodes.
C20_OpcodesUnique ==
    Validated =>
        /\ (OtherwiseValid /\ ~DistinctOpcodes(raw.commands)) =>
              /\ definition.tag = "Err"
              /\ definition.err = "Duplicate opcode"
        /\ IsOk(definition) => DistinctOpcodes(definition.value.commands)

\* Two commands that differ in all but the opcode are rejected as duplicates.
C20_Witness ==
    /\ Validated
    /\ OtherwiseValid
    /\ Len(raw.commands) = 2
    /\ raw.commands[1].opcode = raw.commands[2].opcode
    /\ raw.commands[1].mnemonic # raw.commands[2].mnemonic
    /\ definition.err = "Duplicate opcode"

\* C21: a raw definition whose text_address_size differs from its
\* data_address_size is rejected with the 'Differing text and data address
\* sizes are not supported' error, whatever else is wrong with it, and an
\* accepted Definition has an address_size equal to both raw sizes.
C21_AddressSizesFirst ==
    Validated =>
        /\ raw.text_address_size # raw.data_address_size =>
              /\ definition.tag = "Err"
              /\ definition.err = "Differing text and data address sizes are not supported"
        /\ IsOk(definition) =>
              /\ definition.value.address_size = raw.text_address_size
              /\ definition.value.address_size = raw.data_address_size

\* A definition with differing sizes, a command naming a missing register
\* group and a zero text_byte_length is rejected for its sizes.
C21_Witness ==
    /\ Validated
    /\ raw.text_address_size # raw.data_address_size
    /\ ~GroupsResolve
    /\ raw.text_byte_length = 0
    /\ definition.err = "Differing text and data address sizes are not supported"

(***************************************************************************)
(* The word offset, observed through what the link does with it.           *)
(***************************************************************************)
Magnitude(d) == IF d < 0 THEN 0 - d ELSE d

\* The quotient of d by w rounded toward zero.
TowardZero(d, w) == IF d < 0 THEN 0 - (Magnitude(d) \div w) ELSE Magnitude(d) \div w

FieldBefore(x) == BitVec_index(BufferBefore(x[1], x[2]), RelocationAt(x).address)
FieldAfter(x) == BitVec_index(BufferBefore(x[1], x[2] + 1), RelocationAt(x).address)

\* C22: the word offset of a relocation is its bit displacement, the
\* resolved symbol address for an absolute relocation and that address minus
\* the site for a relative one, divided by text_byte_width and rounded
\* toward zero, in both branches: it is what the range check judges and
\* what is added to the field; with width 6 a displacement of -7 adds -1
\* and one of +7 adds +1.
C22_OffsetTruncates ==
    Linked =>
        \A x \in RelocationPositions :
            (Reached(x) /\ Defined(RelocationAt(x).symbol)) =>
                LET r == RelocationAt(x)
                    resolved == AddressOf(FirstDefinition(r.symbol))
                    d == IF r.relative THEN resolved - r.address ELSE resolved
                    q == TowardZero(d, Width)
                    patched == Fate(x) = "Patched" /\ FieldInside(x)
                IN /\ (q > RelocationLimit \/ q < 0 - RelocationLimit) =>
                         /\ linked.tag = "Err"
                         /\ linked.err = "RelocationOutOfRange"
                         /\ linked.arg = r.symbol
                   /\ (q <= RelocationLimit /\ q >= 0 - RelocationLimit
                          /\ linked.err = "RelocationOutOfRange") =>
                         \E y \in RelocationPositions : Before(x, y) /\ Fate(y) # "Patched"
                   /\ patched => FieldAfter(x) = (FieldBefore(x) + q) % FieldRange
                   /\ (patched /\ Width = 6 /\ d = 0 - 7) =>
                         FieldAfter(x) = (FieldBefore(x) + FieldRange - 1) % FieldRange
                   /\ (patched /\ Width = 6 /\ d = 7) =>
                         FieldAfter(x) = (FieldBefore(x) + 1) % FieldRange

\* A link that applied a relative relocation with displacement -7 and an
\* absolute one with displacement +7, leaving 65535 and 1.
C22_Witness ==
    /\ Linked
    /\ IsOk(linked)
    /\ Width = 6
    /\ \E x, y \in RelocationPositions :
          /\ RelocationAt(x).relative
          /\ Displacement(x) = 0 - 7
          /\ FieldInside(x)
          /\ BitVec_index(LinkedSegments[x[1]].data, RelocationAt(x).address) = FieldRange - 1
          /\ ~RelocationAt(y).relative
          /\ Displacement(y) = 7
          /\ FieldInside(y)
          /\ BitVec_index(LinkedSegments[y[1]].data, RelocationAt(y).address) = 1

(***************************************************************************)
(* The executable of a conversion, stated on the object file converted.    *)
(***************************************************************************)
Converted == pc = "converted"

\* The text-bytes taken by the sections of the object file before the i-th.
RECURSIVE TextBytesBefore(_)
TextBytesBefore(i) ==
    IF i <= 1 THEN 0
    ELSE TextBytesBefore(i - 1)
            + CeilDiv(Len(obj.sections[i - 1].data), text_byte_width(obj.architecture))

\* C23: a successful conversion of an object file with N text sections gives
\* an executable with the object file's architecture, entry point 0 and N
\* segments in section order; segment i starts at the placement offset of
\* section i, spans ceil(bit length / text_byte_width) text-bytes, has
\* disk_bit_count and a buffer of the section's bit length, is executable
\* and readable, neither writable nor special, and has the section's symbols.
C23_SegmentsOfSections ==
    (Converted /\ IsOk(linked)) =>
        LET executable == linked.value
        IN /\ executable.header.architecture = obj.architecture
           /\ executable.header.entry_point = 0
           /\ Len(executable.segments) = Len(obj.sections)
           /\ \A i \in 1..Len(obj.sections) :
                 LET segment == executable.segments[i]
                     section == obj.sections[i]
                 IN /\ segment.address_space_start = TextBytesBefore(i)
                    /\ segment.address_space_start = Offset(i)
                    /\ segment.address_space_size
                          = CeilDiv(Len(section.data), text_byte_width(obj.architecture))
                    /\ segment.disk_bit_count = Len(section.data)
                    /\ Len(segment.data) = Len(section.data)
                    /\ segment.flags.executable
                    /\ segment.flags.readable
                    /\ ~segment.flags.writable
                    /\ ~segment.flags.special
                    /\ segment.symbols = section.symbols

\* Two sections converted, the first of a length that is no multiple of the
\* width and with a field patched, the second with symbols and not at 0.
C23_Witness ==
    /\ Converted
    /\ IsOk(linked)
    /\ Len(obj.sections) = 2
    /\ Len(obj.sections[1].data) % text_byte_width(obj.architecture) # 0
    /\ linked.value.segments[1].data # obj.sections[1].data
    /\ linked.value.segments[2].address_space_start > 0
    /\ linked.value.segments[2].symbols # <<>>

SectionIds == {0, 1}

\* Names: "a", the empty name, "\u{e9}" (two bytes in UTF-8), and a name
\* with a NUL char in it.
TableSymbolInputs ==
    {Symbol(<<97>>, 1), Symbol(<<97>>, 300), Symbol(<<>>, 3), Symbol(<<233>>, 2),
     Symbol(<<97, 0, 98>>, 4)}

TableRelocationInputs == {Relocation(<<97>>, 0, FALSE), Relocation(<<233>>, 5, TRUE)}

Call(op, section_id, name, address, relative) ==
    [op |-> op, section_id |-> section_id, name |-> name, address |-> address,
     relative |-> relative]

InitTables ==
    /\ pc = "tables"
    /\ symtab = SymbolTable_new
    /\ reltab = RelocationTable_new
    /\ calls = <<>>
    /\ got = NoGot
    /\ obj = ObjectFile_new("Stack")
    /\ exe = NoExecutable
    /\ data = <<>>
    /\ origin = NoOrigin
    /\ res = NoResult
    /\ byte = 0
    /\ bitvec = <<>>
    /\ call = NoCall
    /\ placement = NoPlacement
    /\ lookup = NoLookup
    /\ linked = NoResult
    /\ raw = NoRawDefinition
    /\ definition = NoResult

AddSymbol ==
    /\ Len(calls) < MaxCalls
    /\ \E section_id \in SectionIds, symbol \in TableSymbolInputs :
          /\ symtab' = add_symbol(symtab, section_id, symbol)
          /\ calls' = Append(calls, Call("add_symbol", section_id, symbol.name,
                                         symbol.address, FALSE))
    /\ got' = NoGot
    /\ UNCHANGED <<pc, reltab, objVars, exeVars, codecVars, archVars, bitVars, linkVars, defVars>>

AddRelocation ==
    /\ Len(calls) < MaxCalls
    /\ \E section_id \in SectionIds, relocation \in TableRelocationInputs :
          /\ reltab' = add_relocation(reltab, section_id, relocation)
          /\ calls' = Append(calls, Call("add_relocation", section_id, relocation.symbol,
                                         relocation.address, relocation.relative))
    /\ got' = NoGot
    /\ UNCHANGED <<pc, symtab, objVars, exeVars, codecVars, archVars, bitVars, linkVars, defVars>>

GetSymbols ==
    /\ \E section_id \in SectionIds :
          got' = [asked |-> TRUE, section_id |-> section_id,
                  symbols |-> get_symbols(symtab, section_id)]
    /\ UNCHANGED <<pc, symtab, reltab, calls, objVars, exeVars, codecVars, archVars, bitVars,
                   linkVars, defVars>>

NextTables == AddSymbol \/ AddRelocation \/ GetSymbols

SpecTables == InitTables /\ [][NextTables]_vars

(***************************************************************************)
(* Properties of the tables, stated on the calls made.                     *)
(***************************************************************************)
IsAddSymbol(c) == c.op = "add_symbol"
IsAddRelocation(c) == c.op = "add_relocation"
SymbolCalls == SelectSeq(calls, IsAddSymbol)
RelocationCalls == SelectSeq(calls, IsAddRelocation)

\* The bytes the names of the first n calls of a log take, terminators
\* included; the length of a name is String::len, its length in bytes.
RECURSIVE BlobLength(_, _)
BlobLength(log, n) ==
    IF n = 0 THEN 0 ELSE BlobLength(log, n - 1) + Len(as_bytes(log[n].name)) + 1

\* The blob those calls leave.
RECURSIVE BlobOf(_, _)
BlobOf(log, n) ==
    IF n = 0 THEN <<>> ELSE BlobOf(log, n - 1) \o as_bytes(log[n].name) \o <<0>>

TableSound(offsets, names, log) ==
    /\ Len(offsets) = Len(log)
    /\ \A i \in 1..Len(offsets) :
          /\ offsets[i] < Len(names)
          /\ offsets[i] = BlobLength(log, i - 1)
    /\ names = <<>> \/ names[Len(names)] = 0
    /\ \A n \in 0..Len(log) : SubSeq(names, 1, BlobLength(log, n)) = BlobOf(log, n)

\* C25: after any sequence of add_symbol calls on a fresh table, and
\* likewise of add_relocation calls, every name offset is below the length
\* of the names blob, the blob is empty or ends with NUL, there is one entry
\* per call, entry i's offset is the sum of (length of name j + 1) over the
\* earlier calls, and a call changes neither the entries nor the blob bytes
\* that earlier calls left: entries and blob are those of the calls so far.
C25_TablesWellFormed ==
    /\ TableSound([i \in 1..Len(symtab.entries) |-> symtab.entries[i].name_offset],
                  symtab.names, SymbolCalls)
    /\ \A i \in 1..Len(symtab.entries) :
          /\ symtab.entries[i].section_id = SymbolCalls[i].section_id
          /\ symtab.entries[i].offset = SymbolCalls[i].address
    /\ TableSound([i \in 1..Len(reltab.entries) |-> reltab.entries[i].symbol_offset],
                  reltab.names, RelocationCalls)
    /\ \A i \in 1..Len(reltab.entries) :
          /\ reltab.entries[i].section_id = RelocationCalls[i].section_id
          /\ reltab.entries[i].address = RelocationCalls[i].address
          /\ reltab.entries[i].relative = RelocationCalls[i].relative

\* Three symbols added, among them an empty name and a name of two bytes
\* for one char, so that offsets differ from the count of chars.
C25_Witness ==
    /\ pc = "tables"
    /\ Len(symtab.entries) = 3
    /\ SymbolCalls[1].name = <<233>>
    /\ SymbolCalls[2].name = <<>>
    /\ symtab.entries[3].name_offset = 4
    /\ Len(symtab.names) > 4

Ascii(name) == \A i \in 1..Len(name) : name[i] < 128
NulFree(name) == \A i \in 1..Len(name) : name[i] # 0

\* The symbols added under a section id, in call order.
AddedUnder(section_id) ==
    LET Under(c) == IsAddSymbol(c) /\ c.section_id = section_id
        kept == SelectSeq(calls, Under)
    IN [i \in 1..Len(kept) |-> Symbol(kept[i].name, kept[i].address)]

\* C26: when the names added are free of NUL, get_symbols(id) returns the
\* symbols added under id, in the order added, each with the name and the
\* address it was added with; symbols added under another id do not appear,
\* and a name may be added several times.
C26_GetSymbolsReturnsAdded ==
    (got.asked /\ \A i \in 1..Len(SymbolCalls) : NulFree(SymbolCalls[i].name)) =>
        got.symbols = AddedUnder(got.section_id)

\* The same, for names of ASCII chars only.
C26_AsciiNames ==
    (\A i \in 1..Len(SymbolCalls) : Ascii(SymbolCalls[i].name)) =>
        C26_GetSymbolsReturnsAdded

(***************************************************************************)
(* Relocations whose site is at or past the end of the buffer.             *)
(***************************************************************************)
SitePastEnd(x) == RelocationAt(x).address >= BitLen(x[1])

\* C27: a relocation whose site is at or past the bit length of its section
\* does not fail the link on that account: its symbol is looked up and its
\* offset range-checked as for any other, and when both pass no bit of the
\* buffer changes and the link goes on, to success if nothing else fails.
C27_SitePastEndIsSkipped ==
    Linked =>
        /\ \A x \in RelocationPositions :
              (Reached(x) /\ SitePastEnd(x)) =>
                  LET r == RelocationAt(x)
                  IN /\ ~Defined(r.symbol) =>
                           /\ linked.tag = "Err"
                           /\ linked.err = "SymbolNotFound"
                           /\ linked.arg = r.symbol
                     /\ (Defined(r.symbol) /\ ~InRange(WordOffset(x))) =>
                           /\ linked.tag = "Err"
                           /\ linked.err = "RelocationOutOfRange"
                           /\ linked.arg = r.symbol
                     /\ (Defined(r.symbol) /\ InRange(WordOffset(x))) =>
                           /\ BufferBefore(x[1], x[2] + 1) = BufferBefore(x[1], x[2])
                           /\ \/ IsOk(linked)
                              \/ \E y \in RelocationPositions :
                                    Before(x, y) /\ Fate(y) # "Patched"
        /\ (\A x \in RelocationPositions :
               SitePastEnd(x) /\ Defined(RelocationAt(x).symbol) /\ InRange(WordOffset(x))) =>
              /\ IsOk(linked)
              /\ \A i \in 1..Len(placement.sections) :
                    LinkedSegments[i].data = placement.sections[i].section.data

\* A link that succeeded over a relocation with a site at the very end of
\* its buffer and a word offset that is not zero.
C27_Witness ==
    /\ Linked
    /\ IsOk(linked)
    /\ \E x \in RelocationPositions :
          /\ RelocationAt(x).address = BitLen(x[1])
          /\ WordOffset(x) % FieldRange # 0
          /\ LinkedSegments[x[1]].data = placement.sections[x[1]].section.data

(***************************************************************************)
(* The order of the relocations of a section.                              *)
(***************************************************************************)
RelocationsOf(i) == placement.sections[i].section.relocations

\* The sites of section i are pairwise the same or at least a field apart,
\* and every field lies inside the buffer.
Separated(i) ==
    /\ \A k \in 1..Len(RelocationsOf(i)) : FieldInside(<<i, k>>)
    /\ \A j, k \in 1..Len(RelocationsOf(i)) :
          \/ RelocationsOf(i)[j].address = RelocationsOf(i)[k].address
          \/ RelocationsOf(i)[j].address + FieldBits <= RelocationsOf(i)[k].address
          \/ RelocationsOf(i)[k].address + FieldBits <= RelocationsOf(i)[j].address

Orders(n) == {f \in [1..n -> 1..n] : \A a, b \in 1..n : a # b => f[a] # f[b]}

\* The word offsets of the relocations of section i at one site, summed.
RECURSIVE OffsetsAt(_, _, _)
OffsetsAt(i, site, k) ==
    IF k = 0 THEN 0
    ELSE OffsetsAt(i, site, k - 1)
            + (IF RelocationsOf(i)[k].address = site THEN WordOffset(<<i, k>>) ELSE 0)

\* C29: in a link that succeeds, for a section whose sites are pairwise the
\* same or at least 16 bits apart with every field inside the buffer, the
\* patched buffer is the same for every order of its relocations, and the
\* field at a site holds what was there plus the sum of the word offsets of
\* the relocations at that site, modulo 2^16.
C29_OrderDoesNotMatter ==
    (Linked /\ IsOk(linked)) =>
        \A i \in 1..Len(placement.sections) :
            Separated(i) =>
                LET rs == RelocationsOf(i)
                    original == placement.sections[i].section.data
                    final == LinkedSegments[i].data
                IN /\ \A order \in Orders(Len(rs)) :
                         LET reordered == relocate(original, [k \in 1..Len(rs) |-> rs[order[k]]],
                                                   1, placement, Width)
                         IN IsOk(reordered) /\ reordered.value = final
                   /\ \A k \in 1..Len(rs) :
                         BitVec_index(final, rs[k].address)
                            = (BitVec_index(original, rs[k].address)
                                  + OffsetsAt(i, rs[k].address, Len(rs))) % FieldRange

\* A link of a section with two relocations at one site and of a section
\* with two relocations at sites more than 16 bits apart, with offsets that
\* are not zero.
C29_Witness ==
    /\ Linked
    /\ IsOk(linked)
    /\ \E i, j \in 1..Len(placement.sections) :
          /\ Separated(i)
          /\ Len(RelocationsOf(i)) = 2
          /\ RelocationsOf(i)[1].address = RelocationsOf(i)[2].address
          /\ WordOffset(<<i, 1>>) < 0
          /\ WordOffset(<<i, 2>>) > 0
          /\ Separated(j)
          /\ Len(RelocationsOf(j)) = 2
          /\ RelocationsOf(j)[1].address # RelocationsOf(j)[2].address
          /\ LinkedSegments[j].data # placement.sections[j].section.data

(***************************************************************************)
(* Table entries of crafted bytes, read off the bytes at their places.     *)
(***************************************************************************)
CraftedSections == Len(origin.headers) - 2

\* The byte at which the payload of the k-th header starts.
PayloadStart(k) ==
    ObjectHeaderSize + SectionHeaderSize * Len(origin.headers)
        + SumSeq([i \in 1..(k - 1) |->
                    IF origin.headers[i].type = "Text"
                    THEN (origin.headers[i].bit_length + 7) \div 8
                    ELSE IF origin.headers[i].type = "SymbolTable"
                    THEN SymbolEntrySize * origin.headers[i].entry_count
                            + origin.headers[i].names_length
                    ELSE RelocationEntrySize * origin.headers[i].entry_count
                            + origin.headers[i].names_length])

\* The section ids of the entries of the table under the k-th header.
EntrySectionIds(k, entry_size) ==
    [e \in 1..origin.headers[k].entry_count |->
        from_le_bytes(Slice(data, PayloadStart(k) + entry_size * (e - 1),
                            PayloadStart(k) + entry_size * (e - 1) + 4))]

Attached(ids) == Cardinality({e \in 1..Len(ids) : ids[e] < CraftedSections})
Foreign(ids) == \E e \in 1..Len(ids) : ids[e] >= CraftedSections

\* Bytes with text sections and the two tables in place, every table with
\* names, all of it present.
CraftedWithTables ==
    /\ DecodedFrom("crafted")
    /\ ~StructurallyWrong(origin.headers)
    /\ \A i \in 1..CraftedSections : origin.headers[i].type = "Text"
    /\ origin.headers[Len(origin.headers) - 1].names_length > 0
    /\ origin.headers[Len(origin.headers)].names_length > 0
    /\ Len(data) >= PayloadStart(Len(origin.headers) + 1)

\* C28: deserialize accepts bytes in which a symbol or relocation table
\* entry has a section_id at or above the number N of text sections; the
\* entry is attached to no section, so the sections together have fewer
\* symbols (relocations) than the table has entries, and the tables of the
\* re-serialized object file do not have the entry.
C28_ForeignEntriesAreDropped ==
    CraftedWithTables =>
        LET k == Len(origin.headers)
            symbol_ids == EntrySectionIds(k - 1, SymbolEntrySize)
            relocation_ids == EntrySectionIds(k, RelocationEntrySize)
        IN /\ IsOk(res)
           /\ Len(res.value.sections) = CraftedSections
           /\ SymbolCount(res.value.sections) = Attached(symbol_ids)
           /\ RelocationCount(res.value.sections) = Attached(relocation_ids)
           /\ Foreign(symbol_ids) =>
                 SymbolCount(res.value.sections) < origin.headers[k - 1].entry_count
           /\ Foreign(relocation_ids) =>
                 RelocationCount(res.value.sections) < origin.headers[k].entry_count
           /\ LET again == ReadSectionHeaders(ObjectFile_serialize(res.value), ObjectHeaderSize,
                                              k, <<>>)
              IN /\ IsOk(again)
                 /\ again.value[k - 1].entry_count = Attached(symbol_ids)
                 /\ again.value[k].entry_count = Attached(relocation_ids)

\* Bytes with a text section, a symbol entry of section 7 and a relocation
\* entry of section 0: they are accepted, the section has the relocation and
\* no symbol.
C28_Witness ==
    /\ CraftedWithTables
    /\ IsOk(res)
    /\ CraftedSections >= 1
    /\ Foreign(EntrySectionIds(Len(origin.headers) - 1, SymbolEntrySize))
    /\ ~Foreign(EntrySectionIds(Len(origin.headers), RelocationEntrySize))
    /\ SymbolCount(res.value.sections) = 0
    /\ RelocationCount(res.value.sections) = 1

(***************************************************************************)
(* Building an object file: sections are added to it and other object      *)
(* files are merged into it, every call is logged, and a merge that panics *)
(* ends the building.                                                      *)
(***************************************************************************)
MergeSectionInputs ==
    {TextSection(<<>>, <<>>, <<>>),
     TextSection(OneBits(1), <<Symbol(NameA, 0)>>, <<Relocation(NameA, 0, FALSE)>>)}

MergeFileInputs ==
    {with_sections(a, sections) :
        a \in Architectures, sections \in SeqsUpTo(MergeSectionInputs, 2)}

BuildCall(op, architecture, sections, panicked) ==
    [op |-> op, architecture |-> architecture, sections |-> sections, panicked |-> panicked]

InitMerge ==
    /\ pc = "building"
    /\ obj \in {ObjectFile_new(a) : a \in Architectures}
    /\ calls = <<>>
    /\ symtab = SymbolTable_new
    /\ reltab = RelocationTable_new
    /\ got = NoGot
    /\ exe = NoExecutable
    /\ data = <<>>
    /\ origin = NoOrigin
    /\ res = NoResult
    /\ byte = 0
    /\ bitvec = <<>>
    /\ call = NoCall
    /\ placement = NoPlacement
    /\ lookup = NoLookup
    /\ linked = NoResult
    /\ raw = NoRawDefinition
    /\ definition = NoResult

BuildAddSection ==
    /\ pc = "building"
    /\ Len(calls) < MaxCalls
    /\ \E section \in MergeSectionInputs :
          /\ obj' = add_section(obj, section)
          /\ calls' = Append(calls, BuildCall("add_section", obj.architecture, <<section>>,
                                              FALSE))
    /\ UNCHANGED <<pc, symtab, reltab, got, exeVars, codecVars, archVars, bitVars, linkVars,
                   defVars>>

Merge ==
    /\ pc = "building"
    /\ Len(calls) < MaxCalls
    /\ \E other \in MergeFileInputs :
          LET merged == merge(obj, other)
          IN /\ obj' = merged.object
             /\ pc' = (IF merged.panicked THEN "panicked" ELSE "building")
             /\ calls' = Append(calls, BuildCall("merge", other.architecture, other.sections,
                                                 merged.panicked))
    /\ UNCHANGED <<symtab, reltab, got, exeVars, codecVars, archVars, bitVars, linkVars,
                   defVars>>

NextMerge == BuildAddSection \/ Merge

SpecMerge == InitMerge /\ [][NextMerge]_vars

\* The sections of the first n calls of the log that did not panic, in order.
RECURSIVE SectionsOfCalls(_)
SectionsOfCalls(n) ==
    IF n = 0 THEN <<>>
    ELSE SectionsOfCalls(n - 1) \o (IF calls[n].panicked THEN <<>> ELSE calls[n].sections)

\* C30: after any sequence of add_section and merge calls the section list
\* of an object file is the concatenation, in call order, of the sections
\* added and of the section lists of the files merged; a merge of a file
\* with another architecture, and no other call, panics, and it leaves the
\* receiver with the sections it had.
C30_SectionsInCallOrder ==
    (pc \in {"building", "panicked"}) =>
        /\ obj.sections = SectionsOfCalls(Len(calls))
        /\ \A k \in 1..Len(calls) :
              calls[k].panicked <=>
                  (calls[k].op = "merge" /\ calls[k].architecture # obj.architecture)
        /\ pc = "panicked" <=> (calls # <<>> /\ calls[Len(calls)].panicked)

\* A section added, a file of two sections merged, and then a merge of a
\* file with sections and another architecture, which panicked.
C30_Witness ==
    /\ pc = "panicked"
    /\ Len(calls) = 3
    /\ calls[1].op = "add_section"
    /\ calls[2].op = "merge"
    /\ Len(calls[2].sections) = 2
    /\ calls[3].sections # <<>>
    /\ Len(obj.sections) = 3
    /\ obj.sections[1] # obj.sections[2]

====
